---- MODULE Spec2Model ----
(***************************************************************************)
(* Reconciliation of Tempo worklogs against Redmine time entries and the   *)
(* creation of the missing Redmine records (SimpleTimeComparisonUtils and  *)
(* SimpleTimeComparisonManager).                                           *)
(*                                                                         *)
(* Conventions of the model                                                *)
(*   - hours are counted in units of 0.05 h (3 minutes), so "< 0.1" is     *)
(*     "< 2"; they are binary floating-point numbers, as a JavaScript      *)
(*     Number is, of Precision significant bits: every sum and difference  *)
(*     of hours is rounded to the nearest one (ties to even);              *)
(*   - a string of free text is a sequence of one-character strings, so    *)
(*     that toLowerCase, trim and includes are computed;                   *)
(*   - an absent jiraTask (undefined) is "", an absent redmineTask         *)
(*     (undefined / null) is 0: both are falsy in the source;              *)
(*   - an entry object is identified by its tempoId.                       *)
(***************************************************************************)
EXTENDS Integers, Sequences, FiniteSets, TLC

\* ------------------------------------------------------------------ bounds

\* Number of Tempo worklogs of one comparison.
MaxWorklogs == 2
\* Number of Redmine issues created for one comparison result.
MaxIssues == 2
\* Significant bits of a number of hours.
Precision == 3
\* Number of createEntry calls in flight at a time.
MaxSingles == 1

\* ------------------------------------------------------------- input sets

NoJira == ""
NoTask == 0

JiraTasks == {"AB-1", "AB-9"}
Dates == {"2024-01-05"}
\* Hours and description of a worklog: 0.25 h "F" or 0.30 h without text.
Worklogs == {<<5, <<"F">> >>, <<6, << >> >>}

\* Id of the Redmine issue the search finds for a Jira code that is linked.
ExistingIssue(jiraTask) == IF jiraTask = "AB-1" THEN 1 ELSE 2
\* Ids the Redmine server gives to new issues start here.
FirstNewIssueId == 3

\* Normalized Tempo entries (normalizeTempoEntries): redmineTask is null.
TempoEntry(id, d, h, desc, jt) ==
    [tempoId |-> id, date |-> d, hours |-> h, description |-> desc,
     jiraTask |-> jt, redmineTask |-> NoTask]

\* Date, worklog and Jira code of a Tempo entry: AB-1 with either worklog,
\* AB-9 with the long one, no Jira code with the short one.
TempoShapes ==
    (Dates \X Worklogs \X {"AB-1"})
        \cup {<<"2024-01-05", <<6, << >> >>, "AB-9">>,
              <<"2024-01-05", <<5, <<"F">> >>, NoJira>>}

TempoInputs ==
    UNION { { [i \in 1..n |-> TempoEntry(i, f[i][1], f[i][2][1], f[i][2][2], f[i][3])] :
              f \in [1..n -> TempoShapes] } : n \in 0..MaxWorklogs }

\* Normalized Redmine entries (normalizeRedmineEntries).
RedmineEntry(id, d, h, desc, jt, rt) ==
    [redmineId |-> id, date |-> d, hours |-> h, description |-> desc,
     jiraTask |-> jt, redmineTask |-> rt]

RedmineInputs ==
    { << >>,
      << RedmineEntry(1, "2024-01-05", 6, <<"f">>, NoJira, 1),
         RedmineEntry(2, "2024-01-06", 6, << >>, NoJira, 2) >> }

\* ---------------------------------------------------------------- strings

toLowerCase(s) == [i \in 1..Len(s) |-> IF s[i] = "F" THEN "f" ELSE s[i]]

RECURSIVE trim(_)
trim(s) ==
    IF s = << >> THEN s
    ELSE IF Head(s) = " " THEN trim(Tail(s))
    ELSE IF s[Len(s)] = " " THEN trim(SubSeq(s, 1, Len(s) - 1))
    ELSE s

includes(s, t) ==
    \E k \in 0..(Len(s) - Len(t)) : SubSeq(s, k + 1, k + Len(t)) = t

\* SimpleTimeComparisonUtils.calculateSimilarity, in tenths (10 = 1, 8 = 0.8).
calculateSimilarity(str1, str2) ==
    IF str1 = << >> /\ str2 = << >> THEN 10
    ELSE IF str1 = << >> \/ str2 = << >> THEN 0
    ELSE LET s1 == trim(toLowerCase(str1))
             s2 == trim(toLowerCase(str2))
         IN IF s1 = s2 THEN 10
            ELSE IF includes(s1, s2) \/ includes(s2, s1) THEN 8
            ELSE 0

Abs(x) == IF x < 0 THEN -x ELSE x

\* ------------------------------------------------------------------ hours

\* The spacing of the floating-point numbers around x >= 0: the least power
\* of two q with x < q * 2^Precision.
ulp(x) ==
    LET F[k \in 0..x] == IF x < (2 ^ k) * (2 ^ Precision) THEN 2 ^ k ELSE F[k + 1]
    IN F[0]

\* x rounded to the nearest floating-point number, ties to the even one.
fl(x) ==
    LET a == Abs(x)
        q == ulp(a)
        lo == (a \div q) * q
        r == a - lo
        near == IF 2 * r < q THEN lo
                ELSE IF 2 * r > q THEN lo + q
                ELSE IF (lo \div q) % 2 = 0 THEN lo ELSE lo + q
    IN IF x < 0 THEN -near ELSE near

\* a + b and a - b on Numbers.
fadd(a, b) == fl(a + b)
fsub(a, b) == fl(a - b)

\* ------------------------------------------------------------- comparison

\* One iteration of findMatch's loop: does this Redmine entry match?
matches(tempoEntry, redmineEntry) ==
    LET hoursDiff == Abs(fsub(tempoEntry.hours, redmineEntry.hours)) IN
    \/ /\ tempoEntry.jiraTask # NoJira /\ redmineEntry.jiraTask # NoJira
       /\ tempoEntry.jiraTask = redmineEntry.jiraTask
       /\ hoursDiff < 2
    \/ /\ tempoEntry.redmineTask # NoTask /\ redmineEntry.redmineTask # NoTask
       /\ tempoEntry.redmineTask = redmineEntry.redmineTask
       /\ hoursDiff < 2
    \/ /\ hoursDiff < 2
       /\ calculateSimilarity(tempoEntry.description, redmineEntry.description) > 8

\* SimpleTimeComparisonUtils.findMatch: the index of the first Redmine entry
\* of the list that matches, 0 for null.
findMatch(tempoEntry, redmineEntries) ==
    LET hits == {k \in 1..Len(redmineEntries) : matches(tempoEntry, redmineEntries[k])}
    IN IF hits = {} THEN 0 ELSE CHOOSE k \in hits : \A m \in hits : k <= m

\* entries.reduce((sum, e) => sum + e.hours, 0).
sumHours(entries) ==
    LET F[k \in 0..Len(entries)] ==
            IF k = 0 THEN 0 ELSE fadd(F[k - 1], entries[k].hours)
    IN F[Len(entries)]

\* The subsequence of s at the indices in idx, in order (Array.filter).
selectSeq(s, idx) ==
    LET F[k \in 0..Len(s)] ==
            IF k = 0 THEN << >>
            ELSE IF k \in idx THEN Append(F[k - 1], s[k]) ELSE F[k - 1]
    IN F[Len(s)]

\* SimpleTimeComparisonUtils.addRedmineTasksToEntries: search[key] is the id
\* of the first issue the Redmine search returned for the key, 0 for none.
addRedmineTasksToEntries(entries, search) ==
    [i \in 1..Len(entries) |->
        [entries[i] EXCEPT !.redmineTask =
            IF entries[i].jiraTask # NoJira THEN search[entries[i].jiraTask] ELSE NoTask]]

\* SimpleTimeComparisonUtils.compareEntries: redmineByDate groups the Redmine
\* entries by date keeping their order; every Tempo entry without a match on
\* its date is missing.
compareEntries(tempoEntries, redmineEntries, search) ==
    LET redmineByDate(d) ==
            selectSeq(redmineEntries,
                      {k \in 1..Len(redmineEntries) : redmineEntries[k].date = d})
        match(t) == findMatch(t, redmineByDate(t.date))
        missingIdx == {i \in 1..Len(tempoEntries) : match(tempoEntries[i]) = 0}
        missingInRedmine == selectSeq(tempoEntries, missingIdx)
        matchedT == selectSeq(tempoEntries, (1..Len(tempoEntries)) \ missingIdx)
        matched == [i \in 1..Len(matchedT) |->
                      [tempo |-> matchedT[i].tempoId,
                       redmine |-> redmineByDate(matchedT[i].date)[match(matchedT[i])].redmineId]]
    IN [missingInRedmine |-> addRedmineTasksToEntries(missingInRedmine, search),
        matched |-> matched,
        stats |-> [tempoTotal |-> Len(tempoEntries),
                   redmineTotal |-> Len(redmineEntries),
                   missing |-> Len(missingInRedmine),
                   matched |-> Len(matched),
                   tempoHours |-> sumHours(tempoEntries),
                   redmineHours |-> sumHours(redmineEntries),
                   missingHours |-> sumHours(missingInRedmine)]]

\* ------------------------------------------------ SimpleTimeComparisonManager

ZeroStats ==
    [tempoTotal |-> 0, redmineTotal |-> 0, missing |-> 0, matched |-> 0,
     tempoHours |-> 0, redmineHours |-> 0, missingHours |-> 0]

\* this.lastResult = null.
NullResult ==
    [present |-> FALSE,
     comparison |-> [missingInRedmine |-> << >>, matched |-> << >>, stats |-> ZeroStats]]

\* The "1" that stands in when neither a linked nor a default project is set.
DefaultProjectId == 1

\* getLinkedProject() || redmineSettings.projectId || "1", for settings that
\* name no project and no mapping.
projectIdFor(linkedProject, settingsProjectId) ==
    IF linkedProject # 0 THEN linkedProject
    ELSE IF settingsProjectId # 0 THEN settingsProjectId
    ELSE DefaultProjectId

\* getEntryId: the DOM id of an entry's row.
getEntryId(entry) ==
    <<entry.date, entry.hours, IF entry.jiraTask = NoJira THEN "no-jira" ELSE entry.jiraTask>>

\* findIndex of removeEntryFromDisplay and updateUIAfterBulkCreation: the
\* first entry with the same date, hours and jiraTask, 0 for -1.
findIndex(list, createdEntry) ==
    LET hits == {k \in 1..Len(list) :
                    /\ list[k].date = createdEntry.date
                    /\ list[k].hours = createdEntry.hours
                    /\ list[k].jiraTask = createdEntry.jiraTask}
    IN IF hits = {} THEN 0 ELSE CHOOSE k \in hits : \A m \in hits : k <= m

\* Array.splice(index, 1).
splice(list, index) == selectSeq(list, (1..Len(list)) \ {index})

\* displayMissingEntries: one fresh row per entry (none for an empty list).
displayMissingEntries(missingEntries) == [i \in 1..Len(missingEntries) |-> ""]

\* updateEntryVisualState: document.querySelector takes the first row whose
\* data-entry-id is the entry's id; rows are rendered from list.
updateEntryVisualState(rowStates, list, entry, state) ==
    LET hits == {k \in 1..Len(rowStates) :
                    k <= Len(list) /\ getEntryId(list[k]) = getEntryId(entry)}
    IN IF hits = {} THEN rowStates
       ELSE [rowStates EXCEPT ![CHOOSE k \in hits : \A m \in hits : k <= m] = state]

\* createTimeEntry losing the comment of the time entry.
createTimeEntry_noComment(timeEntryData) ==
    [spent_on |-> timeEntryData.date,
     hours |-> timeEntryData.time,
     comments |-> << >>,
     issue_id |-> timeEntryData.task,
     project_id |-> IF timeEntryData.task # NoTask THEN 0 ELSE timeEntryData.projectId]

\* The request body createTimeEntry (api/redmine.js) sends: issue_id when a
\* non-blank task is given, else project_id; 0 is "not in the body".
createTimeEntry(timeEntryData) ==
    [spent_on |-> timeEntryData.date,
     hours |-> timeEntryData.time,
     comments |-> IF timeEntryData.comment = << >> THEN << >> ELSE timeEntryData.comment,
     issue_id |-> timeEntryData.task,
     project_id |-> IF timeEntryData.task # NoTask THEN 0 ELSE timeEntryData.projectId]

\* timeEntryData as createEntry and createAllTimeEntries build it.
timeEntryDataFor(entry, redmineTaskId) ==
    [date |-> entry.date, time |-> entry.hours, comment |-> entry.description,
     task |-> redmineTaskId,
     projectId |-> IF redmineTaskId # NoTask THEN 0 ELSE projectIdFor(0, 0)]

NoBody == [spent_on |-> "", hours |-> 0, comments |-> << >>, issue_id |-> 0, project_id |-> 0]

\* updateOtherEntriesWithSameJiraTask stopping at the first entry it updates.
updateOtherEntriesWithSameJiraTask_first(result, jiraTask, redmineTaskId) ==
    LET list == result.comparison.missingInRedmine
        hits == {k \in 1..Len(list) :
                    list[k].jiraTask = jiraTask /\ list[k].redmineTask = NoTask}
    IN IF ~result.present \/ jiraTask = NoJira \/ hits = {} THEN result
       ELSE [result EXCEPT
               !.comparison.missingInRedmine[CHOOSE k \in hits : \A m \in hits : k <= m]
                   .redmineTask = redmineTaskId]

\* updateOtherEntriesWithSameJiraTask: every listed entry with the same
\* jiraTask and no redmineTask gets the id.
updateOtherEntriesWithSameJiraTask(result, jiraTask, redmineTaskId) ==
    IF ~result.present \/ jiraTask = NoJira THEN result
    ELSE [result EXCEPT !.comparison.missingInRedmine =
            [i \in 1..Len(@) |->
                IF @[i].jiraTask = jiraTask /\ @[i].redmineTask = NoTask
                THEN [@[i] EXCEPT !.redmineTask = redmineTaskId]
                ELSE @[i]]]

\* removeEntryFromDisplay: splice the first entry with the created entry's
\* date, hours and jiraTask; missing and missingHours follow.
removeEntryFromDisplay(result, createdEntry) ==
    LET index == findIndex(result.comparison.missingInRedmine, createdEntry) IN
    IF ~result.present \/ index = 0 THEN result
    ELSE [result EXCEPT
            !.comparison.missingInRedmine = splice(@, index),
            !.comparison.stats.missing = @ - 1,
            !.comparison.stats.missingHours = fsub(@, createdEntry.hours)]

\* The forEach of updateUIAfterBulkCreation: one findIndex + splice per
\* created entry, in order.
RECURSIVE spliceAll(_, _)
spliceAll(list, created) ==
    IF created = << >> THEN list
    ELSE LET index == findIndex(list, Head(created))
         IN spliceAll(IF index = 0 THEN list ELSE splice(list, index), Tail(created))

\* updateUIAfterBulkCreation: createdEntries are the originalEntry objects of
\* the successful results.
updateUIAfterBulkCreation(result, createdEntries) ==
    IF ~result.present THEN result
    ELSE [result EXCEPT
            !.comparison.missingInRedmine = spliceAll(@, createdEntries),
            !.comparison.stats.missing = @ - Len(createdEntries),
            !.comparison.stats.missingHours = fsub(@, sumHours(createdEntries)),
            !.comparison.stats.redmineTotal = @ + Len(createdEntries),
            !.comparison.stats.redmineHours = fadd(@, sumHours(createdEntries)),
            !.comparison.stats.matched = @ + Len(createdEntries)]

\* createUniqueRedmineTasks without the "no redmineTask" filter.
uniqueJiraTasks_all(missingEntries) ==
    {missingEntries[i].jiraTask : i \in
        {k \in 1..Len(missingEntries) : missingEntries[k].jiraTask # NoJira}}

\* createUniqueRedmineTasks: the distinct Jira codes of the entries that have
\* a jiraTask and no redmineTask.
uniqueJiraTasks(missingEntries) ==
    {missingEntries[i].jiraTask : i \in
        {k \in 1..Len(missingEntries) :
            missingEntries[k].jiraTask # NoJira /\ missingEntries[k].redmineTask = NoTask}}

\* createAllTimeEntries: the entry's own redmineTask, else the task created
\* for its jiraTask in this run (taskMapping, 0 where there is none).
redmineTaskIdFor(entry, taskMapping) ==
    IF entry.redmineTask # NoTask THEN entry.redmineTask
    ELSE IF entry.jiraTask # NoJira /\ entry.jiraTask \in DOMAIN taskMapping
            /\ taskMapping[entry.jiraTask] # NoTask
         THEN taskMapping[entry.jiraTask]
    ELSE NoTask

\* Promise.all over promises that reject: the join ends at the first failure.
allSettled_failFast(states) ==
    \/ \A k \in DOMAIN states : states[k].st \notin {"jira", "issue", "pending"}
    \/ \E k \in DOMAIN states : states[k].st \in {"jirafail", "issuefail", "fail"}

\* Promise.all over promises that catch their own errors: the join waits
\* until every one has settled.
allSettled(states) == \A k \in DOMAIN states : states[k].st \notin {"jira", "issue", "pending"}

\* ------------------------------------------------------------------ state

VARIABLES
    lastResult,         \* this.lastResult
    rows,               \* the rendered rows of the missing table: "", "creating", "created"
    createAllDisabled,  \* createAllButton.disabled
    singles,            \* the createEntry calls in flight (and the finished ones, pc "done")
    bulk,               \* the createAllMissingEntries call
    issues,             \* Redmine: the issues created since the comparison
    timeEntries,        \* Redmine: the time entries created since the comparison
    behalf,             \* per entry: a Redmine issue was created on its behalf
    propagated,         \* per Jira code: the id createEntry back-propagated (0: none)
    fetched,            \* compareMonthlyEntries: the normalized entries of the two sources
    monthly,            \* compareMonthlyEntries: its result
    run,                \* compareTimeEntries: its inputs, its requests and its result
    resolution,         \* findRedmineProjectByJiraUrl / getLinkedProject: a call and its result
    sent,               \* createTimeEntry (api/redmine.js): a call, its request and its result
    paging,             \* fetchTimeEntries / getWorklogs: the server's records and the loop
    described,          \* calculateDescriptionSimilarity: two calls on a pair of texts
    tab,                \* the Jira page: its URL, watchURL's state, the instances, the badge
    mappingStore,       \* jira_project_mappings in storage and the saveMapping calls
    sync                \* syncWeekData: the Redmine entries and the runs

creationVars == <<lastResult, rows, createAllDisabled, singles, bulk, issues,
                  timeEntries, behalf, propagated>>
monthlyVars == <<fetched, monthly>>
apiVars == <<resolution, sent, paging>>
extVars == <<described, tab, mappingStore, sync>>
vars == <<creationVars, monthlyVars, run, apiVars, extVars>>

\* No compareMonthlyEntries run.
NoFetched == [tempoOk |-> TRUE, redmineOk |-> TRUE, tempo |-> << >>, redmine |-> << >>]
NoMonthly == [done |-> FALSE]
\* No compareTimeEntries run.
NoRun == [done |-> FALSE]
\* No call of the resolver, of createTimeEntry, of a paginated fetch.
NoCall == [done |-> FALSE]
\* The content script is not loaded into the page.
NoTab == [loaded |-> FALSE]

\* saveMapping and deleteMapping calls in flight at a time, and mappings
\* added in all.
MaxCalls == 2
MaxAdds == 2

\* null, for a project, and for currentEditingId (no mapping is edited).
NoProject == 0
NoId == 0

\* No saveMapping or deleteMapping call in the slot.
IdleCall == [pc |-> "idle"]

\* JiraProjectMappingsManager after its construction and loadMappings, with
\* nothing stored: the modal closed, the form empty.
NoMappings ==
    [stored |-> << >>, mappings |-> << >>, currentEditingId |-> NoId,
     formUrl |-> << >>, formProject |-> NoProject,
     calls |-> [c \in 1..MaxCalls |-> IdleCall], adds |-> 0]

IdleBulk ==
    [pc |-> "idle", missingEntries |-> << >>, tasks |-> << >>, results |-> << >>,
     before |-> ZeroStats]

NoBehalf == [t \in 1..MaxWorklogs |-> FALSE]
NoPropagated == [c \in JiraTasks |-> NoTask]

missingInRedmine == lastResult.comparison.missingInRedmine
stats == lastResult.comparison.stats

\* A creation is in flight.
Busy == bulk.pc \in {"tasks", "times"} \/ \E s \in singles : s.pc # "done"

\* The records of finished calls are dropped when the next call starts.
running(S) == {s \in S : s.pc # "done"}
bulkNow == IF bulk.pc = "done" THEN IdleBulk ELSE bulk

\* The id the Redmine server gives the next new issue.
newIssueId == FirstNewIssueId + Cardinality(issues)

\* The time entry the server stores for a request body (n tells apart the
\* records of one Tempo entry).
stored(entry, body) ==
    [tempoId |-> entry.tempoId, jiraTask |-> entry.jiraTask, body |-> body,
     n |-> 1 + Cardinality({t \in timeEntries : t.tempoId = entry.tempoId})]

\* entry.redmineTask as it is now: createEntry holds the object of the list.
liveRedmineTask(entry) ==
    LET hits == {k \in 1..Len(missingInRedmine) : missingInRedmine[k].tempoId = entry.tempoId}
    IN IF hits = {} THEN entry.redmineTask
       ELSE missingInRedmine[CHOOSE k \in hits : TRUE].redmineTask

Init ==
    /\ lastResult = NullResult
    /\ rows = << >>
    /\ createAllDisabled = TRUE
    /\ singles = {}
    /\ bulk = IdleBulk
    /\ issues = {}
    /\ timeEntries = {}
    /\ behalf = NoBehalf
    /\ propagated = NoPropagated
    /\ fetched = NoFetched
    /\ monthly = NoMonthly
    /\ run = NoRun
    /\ resolution = NoCall
    /\ sent = NoCall
    /\ paging = NoCall
    /\ described = NoCall
    /\ tab = NoTab
    /\ mappingStore = NoMappings
    /\ sync = NoCall

\* ------------------------------------------------------------- comparison

\* performComparison, compareTimeEntries resolving with success: the result
\* replaces lastResult and is rendered (displayResults).
performComparison ==
    \E tempoEntries \in TempoInputs, redmineEntries \in RedmineInputs,
       search \in [JiraTasks -> 0..2] :
        /\ \A c \in JiraTasks : search[c] \in {NoTask, ExistingIssue(c)}
        /\ lastResult' = [present |-> TRUE,
                          comparison |-> compareEntries(tempoEntries, redmineEntries, search)]
        /\ rows' = displayMissingEntries(lastResult'.comparison.missingInRedmine)
        /\ createAllDisabled' = (Len(lastResult'.comparison.missingInRedmine) = 0)
        /\ singles' = running(singles)
        /\ bulk' = bulkNow
        /\ issues' = {}
        /\ timeEntries' = {}
        /\ behalf' = NoBehalf
        /\ propagated' = NoPropagated

\* performComparison, compareTimeEntries resolving with success: false (a
\* source fetch failed): the catch clears the results.
performComparisonFailed ==
    /\ lastResult' = NullResult
    /\ rows' = << >>
    /\ createAllDisabled' = TRUE
    /\ singles' = running(singles)
    /\ bulk' = bulkNow
    /\ issues' = {}
    /\ timeEntries' = {}
    /\ behalf' = NoBehalf
    /\ propagated' = NoPropagated

\* ------------------------------------------------------------ createEntry

SingleCall(entry, pc, redmineTaskId, nIssue, body) ==
    [entry |-> entry, pc |-> pc, redmineTaskId |-> redmineTaskId,
     issueReqs |-> nIssue, timeReqs |-> IF pc = "time" THEN 1 ELSE 0,
     body |-> body, ok |-> FALSE, created |-> NoTask, before |-> stats, threw |-> FALSE]

\* The click on row i's button: createEntry(missingEntries[i]) up to its
\* first request. An entry with a jiraTask and no redmineTask asks Jira for
\* the issue first; any other goes straight to createTimeEntry.
createEntry(i) ==
    /\ lastResult.present
    /\ i \in 1..Len(missingInRedmine)
    /\ rows[i] = ""
    /\ LET entry == missingInRedmine[i] IN
        /\ rows' = updateEntryVisualState(rows, missingInRedmine, entry, "creating")
        /\ singles' = running(singles) \cup
              { IF entry.redmineTask = NoTask /\ entry.jiraTask # NoJira
                THEN SingleCall(entry, "jira", NoTask, 0, NoBody)
                ELSE SingleCall(entry, "time", entry.redmineTask, 0,
                                createTimeEntry(timeEntryDataFor(entry, entry.redmineTask))) }
    /\ bulk' = bulkNow
    /\ UNCHANGED <<lastResult, createAllDisabled, issues, timeEntries, behalf, propagated>>

\* createRedmineTaskForJira in createEntry: JiraRestAPI.getIssue answers.
\* Success goes on to createIssue; a failure throws into createEntry's catch.
createEntryJiraResponse(s, ok) ==
    /\ s \in singles /\ s.pc = "jira"
    /\ IF ok
       THEN singles' = (singles \ {s}) \cup {[s EXCEPT !.pc = "issue", !.issueReqs = @ + 1]}
       ELSE singles' = (singles \ {s}) \cup {[s EXCEPT !.pc = "done"]}
    /\ UNCHANGED <<lastResult, rows, createAllDisabled, bulk, issues, timeEntries,
                   behalf, propagated>>

\* createRedmineTaskForJira in createEntry: createIssue answers. Success
\* sends the createTimeEntry request with the new id; a failure throws.
createEntryIssueResponse(s, ok) ==
    /\ s \in singles /\ s.pc = "issue"
    /\ IF ok
       THEN /\ Cardinality(issues) < MaxIssues
            /\ issues' = issues \cup {[id |-> newIssueId, jiraTask |-> s.entry.jiraTask]}
            /\ behalf' = [behalf EXCEPT ![s.entry.tempoId] = TRUE]
            /\ singles' = (singles \ {s}) \cup
                  {[s EXCEPT !.pc = "time", !.redmineTaskId = newIssueId,
                             !.created = newIssueId, !.timeReqs = 1,
                             !.body = createTimeEntry(timeEntryDataFor(s.entry, newIssueId))]}
       ELSE /\ singles' = (singles \ {s}) \cup {[s EXCEPT !.pc = "done"]}
            /\ UNCHANGED <<issues, behalf>>
    /\ UNCHANGED <<lastResult, rows, createAllDisabled, bulk, timeEntries, propagated>>

\* createEntry: createTimeEntry answers. On success the row is marked, a
\* newly created task is put on the other entries of the Jira code and the
\* entry is removed; a failure throws into the catch and changes nothing.
createEntryTimeResponse(s, ok) ==
    /\ s \in singles /\ s.pc = "time"
    /\ IF ok
       THEN LET marked == updateEntryVisualState(rows, missingInRedmine, s.entry, "created")
                isNew == /\ s.entry.jiraTask # NoJira /\ s.redmineTaskId # NoTask
                         /\ liveRedmineTask(s.entry) = NoTask
                updated == IF isNew
                           THEN updateOtherEntriesWithSameJiraTask(
                                    lastResult, s.entry.jiraTask, s.redmineTaskId)
                           ELSE lastResult
                removed == removeEntryFromDisplay(updated, s.entry)
            IN /\ timeEntries' = timeEntries \cup {stored(s.entry, s.body)}
               /\ lastResult' = removed
               /\ rows' = IF removed # lastResult
                          THEN displayMissingEntries(removed.comparison.missingInRedmine)
                          ELSE marked
               /\ createAllDisabled' =
                    IF removed # updated
                    THEN Len(removed.comparison.missingInRedmine) = 0
                    ELSE createAllDisabled
               /\ propagated' =
                    IF isNew
                    THEN [propagated EXCEPT ![s.entry.jiraTask] = s.redmineTaskId]
                    ELSE propagated
               /\ singles' = (singles \ {s}) \cup {[s EXCEPT !.pc = "done", !.ok = TRUE]}
       ELSE /\ singles' = (singles \ {s}) \cup {[s EXCEPT !.pc = "done"]}
            /\ UNCHANGED <<lastResult, rows, createAllDisabled, timeEntries, propagated>>
    /\ UNCHANGED <<bulk, issues, behalf>>

\* ------------------------------------------------ createAllMissingEntries

\* taskMapping of createUniqueRedmineTasks: the successful results only.
taskMappingOf(tasks) ==
    [c \in {k \in DOMAIN tasks : tasks[k].st = "ok"} |-> tasks[c].id]

\* The synchronous start of createAllTimeEntries: every entry's row is set
\* to creating, its task is determined and its createTimeEntry request sent.
timeRequests(missingEntries, taskMapping) ==
    [i \in 1..Len(missingEntries) |->
        [st |-> "pending",
         body |-> createTimeEntry(timeEntryDataFor(
                     missingEntries[i], redmineTaskIdFor(missingEntries[i], taskMapping)))]]

RECURSIVE markAll(_, _, _, _)
markAll(rowStates, list, entries, state) ==
    IF entries = << >> THEN rowStates
    ELSE markAll(updateEntryVisualState(rowStates, list, Head(entries), state),
                 list, Tail(entries), state)

\* The click on the create-all button: createAllMissingEntries up to its
\* first requests. With no Jira code to create a task for, the time-entry
\* requests go out at once.
createAllMissingEntries ==
    /\ ~createAllDisabled
    /\ lastResult.present
    /\ Len(missingInRedmine) > 0
    /\ createAllDisabled' = TRUE
    /\ LET missingEntries == missingInRedmine
           unique == uniqueJiraTasks(missingEntries)
       IN IF unique = {}
          THEN /\ bulk' = [pc |-> "times", missingEntries |-> missingEntries,
                           tasks |-> << >>,
                           results |-> timeRequests(missingEntries, << >>),
                           before |-> stats]
               /\ rows' = markAll(rows, missingInRedmine, missingEntries, "creating")
          ELSE /\ bulk' = [pc |-> "tasks", missingEntries |-> missingEntries,
                           tasks |-> [c \in unique |-> [st |-> "jira", id |-> NoTask]],
                           results |-> << >>,
                           before |-> stats]
               /\ rows' = rows
    /\ singles' = running(singles)
    /\ UNCHANGED <<lastResult, issues, timeEntries, behalf, propagated>>

\* The continuation of createAllMissingEntries once the tasks have settled:
\* createAllTimeEntries starts. Before that the call waits. missingEntries
\* is the array of lastResult itself, so the entries are those listed now;
\* with none left the run ends at once (Promise.all of no promises).
afterTasks(tasks) ==
    IF ~allSettled(tasks)
    THEN /\ bulk' = [bulk EXCEPT !.tasks = tasks]
         /\ UNCHANGED <<rows, createAllDisabled>>
    ELSE IF Len(missingInRedmine) = 0
    THEN /\ bulk' = [bulk EXCEPT !.pc = "done", !.tasks = tasks,
                                 !.missingEntries = << >>, !.results = << >>]
         /\ rows' = << >>
         /\ createAllDisabled' = FALSE
    ELSE /\ bulk' = [bulk EXCEPT !.pc = "times", !.tasks = tasks,
                                 !.missingEntries = missingInRedmine,
                                 !.results = timeRequests(missingInRedmine,
                                                          taskMappingOf(tasks))]
         /\ rows' = markAll(rows, missingInRedmine, missingInRedmine, "creating")
         /\ UNCHANGED createAllDisabled

\* The entries of the run a task for code c is created for.
entriesOf(c) ==
    {bulk.missingEntries[i].tempoId : i \in
        {k \in 1..Len(bulk.missingEntries) :
            bulk.missingEntries[k].jiraTask = c /\ bulk.missingEntries[k].redmineTask = NoTask}}

\* createUniqueRedmineTasks: JiraRestAPI.getIssue answers for code c. Success
\* goes on to createIssue; a failure is caught as this code's result.
createUniqueRedmineTasksJiraResponse(c, ok) ==
    /\ bulk.pc = "tasks" /\ c \in DOMAIN bulk.tasks /\ bulk.tasks[c].st = "jira"
    /\ IF ok
       THEN afterTasks([bulk.tasks EXCEPT ![c].st = "issue"])
       ELSE afterTasks([bulk.tasks EXCEPT ![c].st = "jirafail"])
    /\ UNCHANGED <<lastResult, singles, issues, timeEntries, behalf, propagated>>

\* createUniqueRedmineTasks: createIssue answers for code c.
createUniqueRedmineTasksIssueResponse(c, ok) ==
    /\ bulk.pc = "tasks" /\ c \in DOMAIN bulk.tasks /\ bulk.tasks[c].st = "issue"
    /\ IF ok
       THEN /\ Cardinality(issues) < MaxIssues
            /\ issues' = issues \cup {[id |-> newIssueId, jiraTask |-> c]}
            /\ behalf' = [t \in 1..MaxWorklogs |->
                            t \in entriesOf(c) \/ behalf[t]]
            /\ afterTasks([bulk.tasks EXCEPT ![c] = [st |-> "ok", id |-> newIssueId]])
       ELSE /\ afterTasks([bulk.tasks EXCEPT ![c].st = "issuefail"])
            /\ UNCHANGED <<issues, behalf>>
    /\ UNCHANGED <<lastResult, singles, timeEntries, propagated>>

\* The originalEntry objects of the successful results, in order.
createdEntriesOf(missingEntries, results) ==
    selectSeq(missingEntries, {k \in 1..Len(results) : results[k].st = "ok"})

\* createAllTimeEntries: createTimeEntry answers for entry i. When every
\* request has settled the successful ones are handed to
\* updateUIAfterBulkCreation and the button is enabled again (finally).
createAllTimeEntriesResponse(i, ok) ==
    /\ bulk.pc = "times" /\ i \in 1..Len(bulk.results) /\ bulk.results[i].st = "pending"
    /\ LET entry == bulk.missingEntries[i]
           results == [bulk.results EXCEPT ![i].st = IF ok THEN "ok" ELSE "fail"]
           marked == IF ok
                     THEN updateEntryVisualState(rows, missingInRedmine, entry, "created")
                     ELSE rows
           updated == updateUIAfterBulkCreation(
                          lastResult, createdEntriesOf(bulk.missingEntries, results))
       IN /\ timeEntries' = IF ok THEN timeEntries \cup {stored(entry, bulk.results[i].body)}
                            ELSE timeEntries
          /\ IF allSettled(results)
             THEN /\ bulk' = [bulk EXCEPT !.pc = "done", !.results = results]
                  /\ lastResult' = updated
                  /\ rows' = IF lastResult.present
                             THEN displayMissingEntries(updated.comparison.missingInRedmine)
                             ELSE marked
                  /\ createAllDisabled' = FALSE
             ELSE /\ bulk' = [bulk EXCEPT !.results = results]
                  /\ rows' = marked
                  /\ UNCHANGED <<lastResult, createAllDisabled>>
    /\ UNCHANGED <<singles, issues, behalf, propagated>>

\* ---------------------------------------------------------- specification

\* One creation at a time: the caller starts a comparison or a creation only
\* when no creation is in flight. A comparison replaces lastResult and the
\* rendered rows wholesale, so one made over a displayed result leads to the
\* states one made after a failed comparison leads to: only the latter is
\* explored.
Next ==
    \/ ~Busy /\ ~lastResult.present /\ performComparison /\ UNCHANGED <<monthlyVars, run, apiVars, extVars>>
    \/ ~Busy /\ lastResult.present /\ performComparisonFailed /\ UNCHANGED <<monthlyVars, run, apiVars, extVars>>
    \/ \E i \in 1..MaxWorklogs : ~Busy /\ createEntry(i) /\ UNCHANGED <<monthlyVars, run, apiVars, extVars>>
    \/ \E s \in singles, ok \in BOOLEAN : createEntryJiraResponse(s, ok) /\ UNCHANGED <<monthlyVars, run, apiVars, extVars>>
    \/ \E s \in singles, ok \in BOOLEAN : createEntryIssueResponse(s, ok) /\ UNCHANGED <<monthlyVars, run, apiVars, extVars>>
    \/ \E s \in singles, ok \in BOOLEAN : createEntryTimeResponse(s, ok) /\ UNCHANGED <<monthlyVars, run, apiVars, extVars>>
    \/ ~Busy /\ createAllMissingEntries /\ UNCHANGED <<monthlyVars, run, apiVars, extVars>>
    \/ \E c \in JiraTasks, ok \in BOOLEAN : createUniqueRedmineTasksJiraResponse(c, ok) /\ UNCHANGED <<monthlyVars, run, apiVars, extVars>>
    \/ \E c \in JiraTasks, ok \in BOOLEAN : createUniqueRedmineTasksIssueResponse(c, ok) /\ UNCHANGED <<monthlyVars, run, apiVars, extVars>>
    \/ \E i \in 1..MaxWorklogs, ok \in BOOLEAN : createAllTimeEntriesResponse(i, ok) /\ UNCHANGED <<monthlyVars, run, apiVars, extVars>>

Spec == Init /\ [][Next]_vars

\* ----------------------------------------------------------------- claims

\* The tempoIds of the entries of the missing list.
missingIds == {missingInRedmine[i].tempoId : i \in 1..Len(missingInRedmine)}

\* This step calls createIssue for Jira code c (from createEntry or from
\* createUniqueRedmineTasks).
issuesRequest(c) ==
    \/ \E s \in singles :
          /\ s.pc = "jira" /\ s.entry.jiraTask = c
          /\ \E s2 \in singles' : s2.entry = s.entry /\ s2.pc = "issue"
    \/ /\ bulk.pc = "tasks" /\ c \in DOMAIN bulk.tasks /\ bulk.tasks[c].st = "jira"
       /\ c \in DOMAIN bulk'.tasks /\ bulk'.tasks[c].st = "issue"

\* This step calls createIssue on behalf of the entry with tempoId t.
issuesRequestFor(t) ==
    \/ \E s \in singles :
          /\ s.pc = "jira" /\ s.entry.tempoId = t
          /\ \E s2 \in singles' : s2.entry = s.entry /\ s2.pc = "issue"
    \/ \E c \in JiraTasks :
          /\ bulk.pc = "tasks" /\ c \in DOMAIN bulk.tasks /\ bulk.tasks[c].st = "jira"
          /\ c \in DOMAIN bulk'.tasks /\ bulk'.tasks[c].st = "issue"
          /\ t \in entriesOf(c)

\* The entries of a finished createAllMissingEntries run with Jira code c and
\* no redmineTask of their own.
unresolvedOf(c) ==
    {i \in 1..Len(bulk.missingEntries) :
        bulk.missingEntries[i].jiraTask = c /\ bulk.missingEntries[i].redmineTask = NoTask}

\* C1: once a creation attempt has created the Redmine issue for an entry's
\* Jira code, no later attempt for that entry sends createIssue for the code
\* again (the entry's own time record having failed in between).
C1_NoSecondIssueRequest ==
    [][ \A t \in 1..MaxWorklogs : behalf[t] => ~issuesRequestFor(t) ]_vars

\* C2: in a finished createAllMissingEntries run, for every Jira code of the
\* unresolved entries, one createIssue request was sent (it succeeded or
\* failed) and every time record created for those entries carries the id
\* that request returned.
C2_OneIssuePerCode ==
    bulk.pc = "done" =>
        \A c \in uniqueJiraTasks(bulk.missingEntries) :
            /\ c \in DOMAIN bulk.tasks
            /\ bulk.tasks[c].st \in {"ok", "issuefail"}
            /\ \A i \in unresolvedOf(c) :
                  bulk.results[i].st = "ok" =>
                      /\ bulk.tasks[c].st = "ok"
                      /\ bulk.results[i].body.issue_id = bulk.tasks[c].id

\* C3: after a successful createEntry on an entry with hours h, missing is
\* one less, missingHours h less, redmineTotal one more, redmineHours h more
\* than before the call, and the entry is not in missingInRedmine.
C3_CreateEntryStats ==
    \A s \in singles :
        (s.pc = "done" /\ s.ok) =>
            /\ stats.missing = s.before.missing - 1
            /\ stats.missingHours = fsub(s.before.missingHours, s.entry.hours)
            /\ stats.redmineTotal = s.before.redmineTotal + 1
            /\ stats.redmineHours = fadd(s.before.redmineHours, s.entry.hours)
            /\ s.entry.tempoId \notin missingIds

\* C4: with creations started one at a time, stats.missing is the length of
\* missingInRedmine and stats.missingHours the sum of its hours (as reduce
\* computes it), after the comparison and after every creation, successful
\* or not.
C4_MissingStatsMatchList ==
    /\ stats.missing = Len(missingInRedmine)
    /\ stats.missingHours = sumHours(missingInRedmine)

\* C5: after a createAllMissingEntries run that created a Redmine issue for
\* a Jira code, every entry of that code still in missingInRedmine has the
\* new issue's id as its redmineTask.
C5_BulkBackPropagation ==
    bulk.pc = "done" =>
        \A c \in DOMAIN bulk.tasks :
            bulk.tasks[c].st = "ok" =>
                \A i \in 1..Len(missingInRedmine) :
                    missingInRedmine[i].jiraTask = c =>
                        missingInRedmine[i].redmineTask = bulk.tasks[c].id

\* C6: once a successful createEntry has created a Redmine issue for a Jira
\* code, every entry of that code in missingInRedmine has the new id as its
\* redmineTask, no later step calls createIssue for the code, and every time
\* record created afterwards for the code carries the id.
C6_SingleBackPropagation ==
    [][ \A c \in JiraTasks :
          /\ propagated'[c] # NoTask =>
                \A i \in 1..Len(missingInRedmine') :
                    missingInRedmine'[i].jiraTask = c =>
                        missingInRedmine'[i].redmineTask = propagated'[c]
          /\ propagated[c] # NoTask =>
                /\ ~issuesRequest(c)
                /\ \A t \in timeEntries' \ timeEntries :
                      t.jiraTask = c => t.body.issue_id = propagated[c] ]_vars

C6_Witness ==
    \E c \in JiraTasks :
        /\ propagated[c] # NoTask
        /\ \E t \in timeEntries, i \in 1..Len(missingInRedmine) :
              /\ t.jiraTask = c /\ t.body.issue_id = propagated[c]
              /\ missingInRedmine[i].jiraTask = c
              /\ missingInRedmine[i].redmineTask = propagated[c]
        /\ bulk.pc = "done"

\* C7: for an entry of missingInRedmine whose redmineTask is resolved, no
\* step calls createIssue for its Jira code, and the time record created for
\* it carries exactly its redmineTask as issue id (and no project id).
C7_ResolvedTaskIsUsed ==
    [][ /\ \A i \in 1..Len(missingInRedmine) :
              (missingInRedmine[i].jiraTask # NoJira /\ missingInRedmine[i].redmineTask # NoTask)
                  => ~issuesRequest(missingInRedmine[i].jiraTask)
        /\ \A t \in timeEntries' \ timeEntries :
              \A i \in 1..Len(missingInRedmine) :
                  (missingInRedmine[i].tempoId = t.tempoId /\ missingInRedmine[i].redmineTask # NoTask)
                      => /\ t.body.issue_id = missingInRedmine[i].redmineTask
                         /\ t.body.project_id = 0 ]_vars

C7_Witness ==
    /\ issues = {}
    /\ bulk.pc = "done"
    /\ \E t \in timeEntries : t.jiraTask # NoJira /\ t.body.issue_id = ExistingIssue(t.jiraTask)
    /\ \E i \in 1..Len(bulk.missingEntries) : bulk.missingEntries[i].redmineTask = NoTask

\* C8: in a finished createAllMissingEntries run, when createIssue failed for
\* a Jira code, every unresolved entry of that code failed, has no time record
\* and is still in missingInRedmine.
C8_FailedIssueFailsEntries ==
    bulk.pc = "done" =>
        \A c \in DOMAIN bulk.tasks :
            bulk.tasks[c].st = "issuefail" =>
                \A i \in unresolvedOf(c) :
                    /\ bulk.results[i].st = "fail"
                    /\ bulk.missingEntries[i].tempoId \in missingIds
                    /\ \A t \in timeEntries : t.tempoId # bulk.missingEntries[i].tempoId

\* C9: a createAllMissingEntries run ends only when the task creation of
\* every Jira code and the time-record request of every entry has settled,
\* whatever failed; every success is recorded (its time record is stored,
\* the list and the stats shrink by the number of successes).
C9_AllRequestsSettleAndCount ==
    bulk.pc = "done" =>
        LET created == createdEntriesOf(bulk.missingEntries, bulk.results) IN
        /\ DOMAIN bulk.tasks = uniqueJiraTasks(bulk.missingEntries)
        /\ \A c \in DOMAIN bulk.tasks : bulk.tasks[c].st \in {"ok", "jirafail", "issuefail"}
        /\ \A c \in DOMAIN bulk.tasks :
              bulk.tasks[c].st = "ok" => [id |-> bulk.tasks[c].id, jiraTask |-> c] \in issues
        /\ Len(bulk.results) = Len(bulk.missingEntries)
        /\ \A i \in 1..Len(bulk.results) : bulk.results[i].st \in {"ok", "fail"}
        /\ \A i \in 1..Len(bulk.results) :
              bulk.results[i].st = "ok" =>
                  \E t \in timeEntries :
                      t.tempoId = bulk.missingEntries[i].tempoId /\ t.body = bulk.results[i].body
        /\ Len(missingInRedmine) = Len(bulk.missingEntries) - Len(created)
        /\ stats.missing = bulk.before.missing - Len(created)

C9_Witness ==
    /\ bulk.pc = "done"
    /\ \E c, d \in DOMAIN bulk.tasks :
          bulk.tasks[c].st = "issuefail" /\ bulk.tasks[d].st = "ok"
    /\ \E i, j \in 1..Len(bulk.results) :
          bulk.results[i].st = "fail" /\ bulk.results[j].st = "ok"

\* C10: a successful createEntry on an entry with a Jira code and no
\* redmineTask has sent exactly one createIssue and one createTimeEntry
\* request; the time record has the entry's date, hours and description and
\* the id of the issue that createIssue created.
C10_CreateEntryRequests ==
    \A s \in singles :
        (s.pc = "done" /\ s.ok /\ s.entry.jiraTask # NoJira /\ s.entry.redmineTask = NoTask) =>
            /\ s.issueReqs = 1
            /\ s.timeReqs = 1
            /\ [id |-> s.created, jiraTask |-> s.entry.jiraTask] \in issues
            /\ s.body = [spent_on |-> s.entry.date, hours |-> s.entry.hours,
                         comments |-> s.entry.description,
                         issue_id |-> s.created, project_id |-> 0]
            /\ \E t \in timeEntries : t.tempoId = s.entry.tempoId /\ t.body = s.body

C10_Witness ==
    \E s \in singles :
        /\ s.pc = "done" /\ s.ok
        /\ s.entry.jiraTask # NoJira /\ s.entry.redmineTask = NoTask
        /\ s.entry.description # << >>
        /\ s.created >= FirstNewIssueId

\* ------------------------------------------------- creations through the UI

\* What the page lets the user start: a row's button starts createEntry
\* unless the row is disabled, the create-all button starts
\* createAllMissingEntries unless it is disabled. One createAllMissingEntries
\* run and MaxSingles createEntry calls are followed at a time; a comparison
\* is started between creations.
NextUI ==
    \/ ~Busy /\ ~lastResult.present /\ performComparison /\ UNCHANGED <<monthlyVars, run, apiVars, extVars>>
    \/ ~Busy /\ lastResult.present /\ performComparisonFailed /\ UNCHANGED <<monthlyVars, run, apiVars, extVars>>
    \/ \E i \in 1..MaxWorklogs :
          Cardinality(running(singles)) < MaxSingles /\ createEntry(i) /\ UNCHANGED <<monthlyVars, run, apiVars, extVars>>
    \/ \E s \in singles, ok \in BOOLEAN : createEntryJiraResponse(s, ok) /\ UNCHANGED <<monthlyVars, run, apiVars, extVars>>
    \/ \E s \in singles, ok \in BOOLEAN : createEntryIssueResponse(s, ok) /\ UNCHANGED <<monthlyVars, run, apiVars, extVars>>
    \/ \E s \in singles, ok \in BOOLEAN : createEntryTimeResponse(s, ok) /\ UNCHANGED <<monthlyVars, run, apiVars, extVars>>
    \/ bulk.pc \notin {"tasks", "times"} /\ createAllMissingEntries /\ UNCHANGED <<monthlyVars, run, apiVars, extVars>>
    \/ \E c \in JiraTasks, ok \in BOOLEAN : createUniqueRedmineTasksJiraResponse(c, ok) /\ UNCHANGED <<monthlyVars, run, apiVars, extVars>>
    \/ \E c \in JiraTasks, ok \in BOOLEAN : createUniqueRedmineTasksIssueResponse(c, ok) /\ UNCHANGED <<monthlyVars, run, apiVars, extVars>>
    \/ \E i \in 1..MaxWorklogs, ok \in BOOLEAN : createAllTimeEntriesResponse(i, ok) /\ UNCHANGED <<monthlyVars, run, apiVars, extVars>>

SpecUI == Init /\ [][NextUI]_vars

\* C11: a createEntry and a createAllMissingEntries are never in flight at
\* the same time on one lastResult.
C11_CreationsSerialized ==
    ~(bulk.pc \in {"tasks", "times"} /\ \E s \in singles : s.pc # "done")

\* ------------------------------------------------------ TimeComparisonUtils

\* Number of Redmine time entries of one monthly comparison.
MaxLedger == 2

\* A similarity of 1, in the units similarities are counted in (every
\* quotient and product of the scoring is a whole number of them).
Unit == 600

\* Normalized Tempo entries with embedded Jira data
\* (TimeComparisonUtils.normalizeTempoEntries): 0.30 h on 2024-01-05.
MonthlyTempoShapes == {<<"F">>, << >>} \X {"AB-1", NoJira}

MonthlyTempoInputs ==
    UNION { { [i \in 1..n |->
                 [id |-> i, date |-> "2024-01-05", hours |-> 6,
                  description |-> f[i][1], jiraCode |-> f[i][2]]] :
              f \in [1..n -> MonthlyTempoShapes] } : n \in 0..MaxWorklogs }

\* Normalized Redmine entries (TimeComparisonUtils.normalizeRedmineEntries):
\* the same hours and text, 0.2 h more and other text, 0.7 h more and no text.
MonthlyRedmineShapes ==
    {"2024-01-05", "2024-01-06"}
        \X {<<6, <<"f">> >>, <<10, <<"f", "x">> >>, <<20, << >> >>}
        \X {"AB-1", "AB-9", NoJira}

MonthlyRedmineInputs ==
    UNION { { [i \in 1..n |->
                 [id |-> i, date |-> f[i][1], hours |-> f[i][2][1],
                  description |-> f[i][2][2], jiraCode |-> f[i][3], issueId |-> i]] :
              f \in [1..n -> MonthlyRedmineShapes] } : n \in 0..MaxLedger }

Max(a, b) == IF a >= b THEN a ELSE b
Min(a, b) == IF a <= b THEN a ELSE b

\* The matrix of calculateDescriptionSimilarity: matrix[i][j] is the edit
\* distance between the first i characters of str2 and the first j of str1.
levenshtein(str1, str2) ==
    LET matrix[i \in 0..Len(str2), j \in 0..Len(str1)] ==
            IF i = 0 THEN j
            ELSE IF j = 0 THEN i
            ELSE IF str2[i] = str1[j] THEN matrix[i - 1, j - 1]
            ELSE Min(matrix[i - 1, j - 1] + 1,
                     Min(matrix[i, j - 1] + 1, matrix[i - 1, j] + 1))
    IN matrix[Len(str2), Len(str1)]

\* calculateDescriptionSimilarity dividing by the length of the first text.
calculateDescriptionSimilarity_byFirst(text1, text2) ==
    IF text1 = << >> /\ text2 = << >> THEN Unit
    ELSE IF text1 = << >> \/ text2 = << >> THEN 0
    ELSE LET str1 == trim(toLowerCase(text1))
             str2 == trim(toLowerCase(text2))
             maxLength == Len(str1)
         IN IF str1 = str2 THEN Unit
            ELSE IF maxLength = 0 THEN Unit
            ELSE (Unit * (maxLength - levenshtein(str1, str2))) \div maxLength

\* TimeComparisonUtils.calculateDescriptionSimilarity.
calculateDescriptionSimilarity(text1, text2) ==
    IF text1 = << >> /\ text2 = << >> THEN Unit
    ELSE IF text1 = << >> \/ text2 = << >> THEN 0
    ELSE LET str1 == trim(toLowerCase(text1))
             str2 == trim(toLowerCase(text2))
             maxLength == Max(Len(str1), Len(str2))
         IN IF str1 = str2 THEN Unit
            ELSE IF maxLength = 0 THEN Unit
            ELSE (Unit * (maxLength - levenshtein(str1, str2))) \div maxLength

\* The hours part of the similarity: 0.3 under 0.1 h of difference, 0.1
\* under 0.5 h.
hoursScore(hoursDiff) ==
    IF hoursDiff < 2 THEN (3 * Unit) \div 10
    ELSE IF hoursDiff < 10 THEN Unit \div 10
    ELSE 0

\* The Jira part of the similarity: 0.8 for the same Jira code.
jiraScore(tempoEntry, redmineEntry) ==
    IF /\ tempoEntry.jiraCode # NoJira /\ redmineEntry.jiraCode # NoJira
       /\ tempoEntry.jiraCode = redmineEntry.jiraCode
    THEN (8 * Unit) \div 10 ELSE 0

\* The similarity findEnrichedMatchingEntry adds up for one Redmine entry:
\* the Jira part, the hours part and 0.2 of the description similarity.
enrichedSimilarity(tempoEntry, redmineEntry) ==
    jiraScore(tempoEntry, redmineEntry)
        + hoursScore(Abs(fsub(tempoEntry.hours, redmineEntry.hours)))
        + (calculateDescriptionSimilarity(tempoEntry.description, redmineEntry.description) * 2)
              \div 10

\* findEnrichedMatchingEntry keeping a candidate only above the threshold.
qualifies_above(similarity) == similarity > Unit \div 2

\* findEnrichedMatchingEntry: a candidate is kept from a similarity of 0.5.
qualifies(similarity) == similarity >= Unit \div 2

\* findEnrichedMatchingEntry returning the first candidate kept.
bestMatch_first(similarity, kept) == CHOOSE k \in kept : \A m \in kept : k <= m

\* matches.sort((a, b) => b.similarity - a.similarity)[0]: the sort is
\* stable, so the first of the candidates with the highest similarity.
bestMatch(similarity, kept) ==
    CHOOSE k \in kept :
        \A m \in kept : similarity[m] < similarity[k] \/ (similarity[m] = similarity[k] /\ k <= m)

\* TimeComparisonUtils.findEnrichedMatchingEntry over the Redmine entries of
\* the Tempo entry's date; found = FALSE is null.
findEnrichedMatchingEntry(tempoEntry, redmineEntries) ==
    LET similarity == [k \in 1..Len(redmineEntries) |->
                          enrichedSimilarity(tempoEntry, redmineEntries[k])]
        kept == {k \in 1..Len(redmineEntries) : qualifies(similarity[k])}
    IN IF kept = {}
       THEN [found |-> FALSE, type |-> "", entry |-> 0, similarity |-> 0]
       ELSE LET best == bestMatch(similarity, kept)
            IN [found |-> TRUE,
                type |-> IF similarity[best] >= (9 * Unit) \div 10 THEN "exact" ELSE "partial",
                entry |-> redmineEntries[best].id,
                similarity |-> similarity[best]]

\* groupEntriesByDate(entries)[date] || [].
groupEntriesByDate(entries, date) ==
    selectSeq(entries, {k \in 1..Len(entries) : entries[k].date = date})

\* TimeComparisonUtils.analyzeTaskMapping (the later of the two static
\* methods of that name, which is the one the class keeps).
analyzeTaskMapping(tempoEntry, relatedRedmineEntries) ==
    LET linkedIssues == {k \in 1..Len(relatedRedmineEntries) :
                            relatedRedmineEntries[k].jiraCode = tempoEntry.jiraCode}
    IN [jiraCode |-> tempoEntry.jiraCode,
        linkedRedmineIssues |-> Cardinality(linkedIssues),
        mappingStatus |->
            IF tempoEntry.jiraCode = NoJira THEN "no_jira_issue"
            ELSE IF Cardinality(linkedIssues) = 0 THEN "no_redmine_link"
            ELSE IF Cardinality(linkedIssues) = 1 THEN "single_match"
            ELSE "multiple_matches"]

\* TimeComparisonUtils.generateEnrichedMappingStats: the matched entries are
\* the records performComparison pushes, which have no taskMapping.
generateEnrichedMappingStats(tempoEntries, redmineEntries, matchedEntries) ==
    LET entriesWithJiraIssues ==
            Cardinality({k \in 1..Len(tempoEntries) : tempoEntries[k].jiraCode # NoJira})
        entriesWithLinkedRedmine ==
            Cardinality({k \in 1..Len(matchedEntries) :
                            /\ "taskMapping" \in DOMAIN matchedEntries[k]
                            /\ matchedEntries[k].taskMapping.mappingStatus
                                  \in {"single_match", "multiple_matches"}})
    IN [totalTempoEntries |-> Len(tempoEntries),
        entriesWithJiraIssues |-> entriesWithJiraIssues,
        entriesWithLinkedRedmine |-> entriesWithLinkedRedmine,
        mappingRate |-> IF entriesWithJiraIssues > 0
                        THEN (Unit * entriesWithLinkedRedmine) \div entriesWithJiraIssues
                        ELSE 0]

\* performComparison reporting every entry without an exact match as missing.
TimeComparisonUtils_performComparison_notExact(tempoEntries, redmineEntries) ==
    LET match(k) == findEnrichedMatchingEntry(
                        tempoEntries[k], groupEntriesByDate(redmineEntries, tempoEntries[k].date))
        all == 1..Len(tempoEntries)
        missingT == selectSeq(tempoEntries, {k \in all : match(k).type # "exact"})
        exactK == selectSeq([k \in all |-> k], {k \in all : match(k).type = "exact"})
        partialK == selectSeq([k \in all |-> k], {k \in all : match(k).type = "partial"})
        matchedEntries ==
            [n \in 1..Len(exactK) |->
                [tempoEntry |-> tempoEntries[exactK[n]].id,
                 redmineEntry |-> match(exactK[n]).entry,
                 matchType |-> "exact",
                 similarity |-> IF match(exactK[n]).similarity # 0
                                THEN match(exactK[n]).similarity ELSE Unit]]
    IN [missingInRedmine |->
            [n \in 1..Len(missingT) |->
                [tempoEntry |-> missingT[n].id,
                 reason |-> "not_found",
                 taskMapping |-> analyzeTaskMapping(missingT[n], redmineEntries)]],
        matchedEntries |-> matchedEntries,
        discrepancies |->
            [n \in 1..Len(partialK) |->
                [tempoEntry |-> tempoEntries[partialK[n]].id,
                 redmineEntry |-> match(partialK[n]).entry,
                 type |-> "hours_mismatch"]],
        mappingStats |->
            generateEnrichedMappingStats(tempoEntries, redmineEntries, matchedEntries)]

\* TimeComparisonUtils.performComparison: every Tempo entry is missing, matched
\* (exact) or a discrepancy (partial), by its best match on its date.
TimeComparisonUtils_performComparison(tempoEntries, redmineEntries) ==
    LET match(k) == findEnrichedMatchingEntry(
                        tempoEntries[k], groupEntriesByDate(redmineEntries, tempoEntries[k].date))
        all == 1..Len(tempoEntries)
        missingT == selectSeq(tempoEntries, {k \in all : ~match(k).found})
        exactK == selectSeq([k \in all |-> k], {k \in all : match(k).type = "exact"})
        partialK == selectSeq([k \in all |-> k], {k \in all : match(k).type = "partial"})
        matchedEntries ==
            [n \in 1..Len(exactK) |->
                [tempoEntry |-> tempoEntries[exactK[n]].id,
                 redmineEntry |-> match(exactK[n]).entry,
                 matchType |-> "exact",
                 similarity |-> IF match(exactK[n]).similarity # 0
                                THEN match(exactK[n]).similarity ELSE Unit]]
    IN [missingInRedmine |->
            [n \in 1..Len(missingT) |->
                [tempoEntry |-> missingT[n].id,
                 reason |-> "not_found",
                 taskMapping |-> analyzeTaskMapping(missingT[n], redmineEntries)]],
        matchedEntries |-> matchedEntries,
        discrepancies |->
            [n \in 1..Len(partialK) |->
                [tempoEntry |-> tempoEntries[partialK[n]].id,
                 redmineEntry |-> match(partialK[n]).entry,
                 type |-> "hours_mismatch"]],
        mappingStats |->
            generateEnrichedMappingStats(tempoEntries, redmineEntries, matchedEntries)]

\* A comparison going on after the first fetch alone.
fetchesSucceeded_tempoOnly(tempoOk, redmineOk) == tempoOk

\* !tempoResult.success and !redmineResult.success both throw: the comparison
\* goes on when both fetches succeeded.
fetchesSucceeded(tempoOk, redmineOk) == tempoOk /\ redmineOk

\* TimeComparisonUtils.compareMonthlyEntries: both sources are fetched; a
\* failed fetch throws into the catch, which returns success: false.
compareMonthlyEntries ==
    /\ ~monthly.done
    /\ \E tempoOk \in BOOLEAN, redmineOk \in BOOLEAN,
          tempoEntries \in MonthlyTempoInputs, redmineEntries \in MonthlyRedmineInputs :
          IF fetchesSucceeded(tempoOk, redmineOk)
          THEN /\ fetched' = [tempoOk |-> tempoOk, redmineOk |-> redmineOk,
                              tempo |-> tempoEntries, redmine |-> redmineEntries]
               /\ monthly' = [done |-> TRUE, success |-> TRUE,
                              comparison |-> TimeComparisonUtils_performComparison(
                                                 tempoEntries, redmineEntries)]
          ELSE /\ fetched' = [tempoOk |-> tempoOk, redmineOk |-> redmineOk,
                              tempo |-> IF tempoOk THEN tempoEntries ELSE << >>,
                              redmine |-> IF redmineOk THEN redmineEntries ELSE << >>]
               /\ monthly' = [done |-> TRUE, success |-> FALSE,
                              error |-> IF tempoOk THEN "Redmine API error"
                                        ELSE "Tempo API error"]
    /\ UNCHANGED <<creationVars, run, apiVars, extVars>>

\* The result is read and dropped.
monthlyCleared ==
    /\ monthly.done
    /\ fetched' = NoFetched
    /\ monthly' = NoMonthly
    /\ UNCHANGED <<creationVars, run, apiVars, extVars>>

NextMonthly ==
    \/ compareMonthlyEntries
    \/ monthlyCleared

SpecMonthly == Init /\ [][NextMonthly]_vars

\* ------------------------------------------- claims on the monthly matcher

\* The ids of the Tempo entries performComparison put in missingInRedmine.
monthlyMissingIds ==
    {monthly.comparison.missingInRedmine[n].tempoEntry :
        n \in 1..Len(monthly.comparison.missingInRedmine)}

\* The Redmine entries fetched for the date of the Tempo entry t.
sameDate(t) ==
    {r \in 1..Len(fetched.redmine) : fetched.redmine[r].date = fetched.tempo[t].date}

\* The similarity of the fetched Tempo entry t and the fetched Redmine entry r.
score(t, r) == enrichedSimilarity(fetched.tempo[t], fetched.redmine[r])

\* C12: a Tempo entry is in missingInRedmine if and only if no Redmine entry of its date has a similarity of at least 0.5 with it.
C12_MissingIffNoCandidate ==
    (monthly.done /\ monthly.success) =>
        \A t \in 1..Len(fetched.tempo) :
            (t \in monthlyMissingIds) <=> (\A r \in sameDate(t) : 2 * score(t, r) < Unit)

C12_Witness ==
    /\ monthly.done /\ monthly.success
    /\ \E t \in 1..Len(fetched.tempo) :
          t \in monthlyMissingIds /\ sameDate(t) # {}
    /\ \E t \in 1..Len(fetched.tempo) : \E r \in sameDate(t) :
          t \notin monthlyMissingIds /\ 2 * score(t, r) = Unit


\* The pairs <<Tempo entry, Redmine entry>> performComparison matched,
\* exactly (matchedEntries) or partially (discrepancies).
monthlySelected ==
    {<<monthly.comparison.matchedEntries[n].tempoEntry,
       monthly.comparison.matchedEntries[n].redmineEntry>> :
        n \in 1..Len(monthly.comparison.matchedEntries)}
    \cup
    {<<monthly.comparison.discrepancies[n].tempoEntry,
       monthly.comparison.discrepancies[n].redmineEntry>> :
        n \in 1..Len(monthly.comparison.discrepancies)}

\* C13: the Redmine entry selected for a Tempo entry is of its date, has a similarity of at least 0.5, and no other such entry of the date has a higher similarity, or the same similarity and an earlier place in the input.
C13_BestCandidateSelected ==
    (monthly.done /\ monthly.success) =>
        \A p \in monthlySelected :
            /\ p[2] \in sameDate(p[1])
            /\ 2 * score(p[1], p[2]) >= Unit
            /\ \A r \in sameDate(p[1]) :
                  \/ score(p[1], r) < score(p[1], p[2])
                  \/ score(p[1], r) = score(p[1], p[2]) /\ p[2] <= r

C13_Witness ==
    /\ monthly.done /\ monthly.success
    /\ \E p \in monthlySelected : \E r \in sameDate(p[1]) :
          /\ r < p[2]
          /\ 2 * score(p[1], r) >= Unit
          /\ score(p[1], r) < score(p[1], p[2])
    /\ \E p \in monthlySelected : \E r \in sameDate(p[1]) :
          /\ r > p[2]
          /\ score(p[1], r) = score(p[1], p[2])


\* C14: every match performComparison records carries a similarity between 0 and 1.
C14_SimilarityInUnitInterval ==
    (monthly.done /\ monthly.success) =>
        \A n \in 1..Len(monthly.comparison.matchedEntries) :
            /\ monthly.comparison.matchedEntries[n].similarity >= 0
            /\ monthly.comparison.matchedEntries[n].similarity <= Unit


\* The number of fetched Redmine entries, of any date, with the Jira code of
\* the fetched Tempo entry t.
linkedCount(t) ==
    Cardinality({r \in 1..Len(fetched.redmine) :
                    fetched.redmine[r].jiraCode = fetched.tempo[t].jiraCode})

\* C15: the mappingStatus of a missing entry is no_jira_task without a Jira code, and otherwise no_redmine_link, single_link or multiple_links for 0, 1 or more Redmine entries of any date with that code.
C15_MappingStatusByLinks ==
    (monthly.done /\ monthly.success) =>
        \A n \in 1..Len(monthly.comparison.missingInRedmine) :
            LET t == monthly.comparison.missingInRedmine[n].tempoEntry
                mappingStatus == monthly.comparison.missingInRedmine[n].taskMapping.mappingStatus
            IN mappingStatus =
                   IF fetched.tempo[t].jiraCode = NoJira THEN "no_jira_task"
                   ELSE IF linkedCount(t) = 0 THEN "no_redmine_link"
                   ELSE IF linkedCount(t) = 1 THEN "single_link"
                   ELSE "multiple_links"

\* The number of matched Tempo entries whose Jira code is on a fetched Redmine
\* entry: the entries linked to a Redmine issue.
linkedEntries ==
    Cardinality({n \in 1..Len(monthly.comparison.matchedEntries) :
                    LET t == monthly.comparison.matchedEntries[n].tempoEntry
                    IN fetched.tempo[t].jiraCode # NoJira /\ linkedCount(t) >= 1})

\* C16: mappingRate is the number of Tempo entries linked to a Redmine issue divided by the number of Tempo entries with a Jira code.
C16_MappingRate ==
    (monthly.done /\ monthly.success) =>
        LET withCode == Cardinality({t \in 1..Len(fetched.tempo) :
                                        fetched.tempo[t].jiraCode # NoJira})
        IN withCode > 0 =>
               monthly.comparison.mappingStats.mappingRate = (Unit * linkedEntries) \div withCode


\* ------------------------------- SimpleTimeComparisonUtils.compareTimeEntries

\* worklog.issue?.id of a worklog without an issue.
NoIssue == 0
\* The Jira issue ids the worklogs refer to, and the key Jira has for each.
JiraIds == {101, 102}
JiraKey(id) == IF id = 101 THEN "AB-1" ELSE "AB-9"

\* Tempo worklogs as fetched: hours is timeSpentSeconds / 3600.
RawWorklogInputs ==
    UNION { { [i \in 1..n |->
                 [tempoWorklogId |-> i, startDate |-> "2024-01-05", hours |-> f[i][1][1],
                  description |-> f[i][1][2], issueId |-> f[i][2]]] :
              f \in [1..n -> Worklogs \X ({NoIssue} \cup JiraIds)] } : n \in 0..MaxWorklogs }

\* The elements of a sequence, each once, in the order of their first
\* occurrence: the iteration order of a Set filled from it.
distinct(seq) ==
    LET F[k \in 0..Len(seq)] ==
            IF k = 0 THEN << >>
            ELSE IF \E j \in 1..(k - 1) : seq[j] = seq[k] THEN F[k - 1]
            ELSE Append(F[k - 1], seq[k])
    IN F[Len(seq)]

\* normalizeTempoEntries asking Jira for the issue of every worklog.
jiraIdsOf_perWorklog(worklogs) ==
    LET withIssue == selectSeq(worklogs, {k \in 1..Len(worklogs) : worklogs[k].issueId # NoIssue})
    IN [k \in 1..Len(withIssue) |-> withIssue[k].issueId]

\* normalizeTempoEntries: Array.from(jiraIds), the Set of the issue ids of
\* the worklogs; one JiraRestAPI.getIssue call is made for each.
jiraIdsOf(worklogs) ==
    LET withIssue == selectSeq(worklogs, {k \in 1..Len(worklogs) : worklogs[k].issueId # NoIssue})
    IN distinct([k \in 1..Len(withIssue) |-> withIssue[k].issueId])

\* SimpleTimeComparisonUtils.normalizeTempoEntries. getIssue[id] tells whether
\* JiraRestAPI.getIssue(id) resolves with success: true; a failed lookup
\* resolves without an issue, and reading result.issue.id of it throws.
normalizeTempoEntries(worklogs, getIssue) ==
    LET requests == jiraIdsOf(worklogs)
    IN [requests |-> requests,
        threw |-> \E k \in 1..Len(requests) : ~getIssue[requests[k]],
        entries |-> [i \in 1..Len(worklogs) |->
                        TempoEntry(worklogs[i].tempoWorklogId, worklogs[i].startDate,
                                   worklogs[i].hours, worklogs[i].description,
                                   IF worklogs[i].issueId = NoIssue THEN NoJira
                                   ELSE JiraKey(worklogs[i].issueId))]]

\* addRedmineTasksToEntries: Array.from(jiraKeys), the Jira codes searchIssues
\* is called for.
jiraKeysOf(entries) ==
    LET withTask == selectSeq(entries, {k \in 1..Len(entries) : entries[k].jiraTask # NoJira})
    IN distinct([k \in 1..Len(withTask) |-> withTask[k].jiraTask])

\* What searchIssues found for each Jira code: the first issue's id, or none
\* (an empty list, and a failed search, which has no list).
foundIssues(searchIssues) ==
    [c \in JiraTasks |-> IF searchIssues[c] = "found" THEN ExistingIssue(c) ELSE NoTask]

\* What compareTimeEntries returns from its catch.
failedRun(inputs, error) == inputs @@ [success |-> FALSE, error |-> error]

\* compareTimeEntries from compareEntries on: the Jira codes of the missing
\* entries are searched in Redmine, and reading result.issues.length of a
\* failed search throws.
comparedRun(inputs, tempoEntries, comparison, searchIssues, searches) ==
    IF \E k \in 1..Len(searches) : searchIssues[searches[k]] = "failed"
    THEN failedRun([inputs EXCEPT !.searchRequests = searches], "TypeError")
    ELSE [inputs EXCEPT !.searchRequests = searches]
             @@ [success |-> TRUE, tempoEntries |-> tempoEntries, comparison |-> comparison]

\* compareTimeEntries from normalizeTempoEntries on: reading result.issue.id
\* of a failed getIssue throws.
normalizedRun(inputs, normalized, comparison, searchIssues) ==
    IF normalized.threw
    THEN failedRun([inputs EXCEPT !.getIssueRequests = normalized.requests], "TypeError")
    ELSE comparedRun([inputs EXCEPT !.getIssueRequests = normalized.requests],
                     normalized.entries, comparison, searchIssues,
                     jiraKeysOf(comparison.missingInRedmine))

\* The inputs of a run and the requests it has made, none yet.
RunInputs(tempoOk, redmineOk, worklogs, getIssue, searchIssues) ==
    [done |-> TRUE, tempoOk |-> tempoOk, redmineOk |-> redmineOk, worklogs |-> worklogs,
     getIssue |-> getIssue, searchIssues |-> searchIssues,
     getIssueRequests |-> << >>, searchRequests |-> << >>]

\* SimpleTimeComparisonUtils.compareTimeEntries. The Tempo worklogs are
\* fetched, then the Redmine entries; the worklogs are normalized, the entries
\* compared and the missing ones searched in Redmine. A failed fetch throws,
\* and the catch returns success: false.
compareTimeEntries ==
    /\ ~run.done
    /\ \E tempoOk \in BOOLEAN, redmineOk \in BOOLEAN,
          worklogs \in RawWorklogInputs, redmineEntries \in RedmineInputs,
          getIssue \in [JiraIds -> BOOLEAN],
          searchIssues \in [JiraTasks -> {"found", "none", "failed"}] :
          IF ~tempoOk
          THEN run' = failedRun(RunInputs(FALSE, TRUE, << >>, getIssue, searchIssues),
                                "Tempo API")
          ELSE IF ~fetchesSucceeded(tempoOk, redmineOk)
          THEN run' = failedRun(RunInputs(TRUE, FALSE, worklogs, getIssue, searchIssues),
                                "Redmine API")
          ELSE run' = normalizedRun(
                          RunInputs(tempoOk, redmineOk, worklogs, getIssue, searchIssues),
                          normalizeTempoEntries(worklogs, getIssue),
                          compareEntries(normalizeTempoEntries(worklogs, getIssue).entries,
                                         redmineEntries, foundIssues(searchIssues)),
                          searchIssues)
    /\ UNCHANGED <<creationVars, monthlyVars, apiVars, extVars>>

\* The next click on the compare button: the result is replaced.
runCleared ==
    /\ run.done
    /\ run' = NoRun
    /\ UNCHANGED <<creationVars, monthlyVars, apiVars, extVars>>

NextSimple ==
    \/ compareTimeEntries
    \/ runCleared

SpecSimple == Init /\ [][NextSimple]_vars

\* Either comparison, one at a time.
NextReconcile ==
    \/ ~monthly.done /\ compareTimeEntries
    \/ runCleared
    \/ ~run.done /\ compareMonthlyEntries
    \/ monthlyCleared

SpecReconcile == Init /\ [][NextReconcile]_vars


\* ------------------------------------------------ claims on the comparisons

\* C17: when the Tempo fetch or the Redmine fetch fails, compareTimeEntries and compareMonthlyEntries resolve to success: false with an error and without comparison data.
C17_FailedFetchFailsRun ==
    /\ (run.done /\ ~(run.tempoOk /\ run.redmineOk)) =>
           /\ ~run.success
           /\ "error" \in DOMAIN run
           /\ {"comparison", "tempoEntries"} \cap DOMAIN run = {}
    /\ (monthly.done /\ ~(fetched.tempoOk /\ fetched.redmineOk)) =>
           /\ ~monthly.success
           /\ DOMAIN monthly = {"done", "success", "error"}

C17_Witness ==
    /\ run.done
    /\ run.tempoOk /\ ~run.redmineOk
    /\ run.worklogs # << >>
    /\ ~run.success


\* The normalization of the run was reached: both fetches succeeded.
normalizing == run.done /\ run.tempoOk /\ run.redmineOk

\* C18: when the Jira lookup of one issue id fails, the run still succeeds, the worklogs of that id are normalized without a Jira code and the other worklogs keep theirs.
C18_FailedLookupDegrades ==
    (/\ normalizing
     /\ \E k \in 1..Len(run.getIssueRequests) : ~run.getIssue[run.getIssueRequests[k]]
     /\ \A c \in JiraTasks : run.searchIssues[c] # "failed") =>
        /\ run.success
        /\ \A i \in 1..Len(run.worklogs) :
              run.tempoEntries[i].jiraTask =
                  IF run.worklogs[i].issueId = NoIssue \/ ~run.getIssue[run.worklogs[i].issueId]
                  THEN NoJira
                  ELSE JiraKey(run.worklogs[i].issueId)

\* C19: when the Redmine search of one Jira code fails, the run still succeeds, the missing entries of that code have no Redmine issue and the others have the issue their search found.
C19_FailedSearchDegrades ==
    (/\ normalizing
     /\ \A k \in 1..Len(run.getIssueRequests) : run.getIssue[run.getIssueRequests[k]]
     /\ \E k \in 1..Len(run.searchRequests) :
           run.searchIssues[run.searchRequests[k]] = "failed") =>
        /\ run.success
        /\ \A n \in 1..Len(run.comparison.missingInRedmine) :
              LET entry == run.comparison.missingInRedmine[n]
              IN entry.redmineTask =
                     IF entry.jiraTask = NoJira THEN NoTask
                     ELSE foundIssues(run.searchIssues)[entry.jiraTask]

\* C20: a run that normalizes the worklogs makes exactly one getIssue call for every issue id the worklogs refer to, and none for any other.
C20_OneLookupPerIssueId ==
    normalizing =>
        \A id \in JiraIds :
            Cardinality({k \in 1..Len(run.getIssueRequests) : run.getIssueRequests[k] = id})
                = IF \E i \in 1..Len(run.worklogs) : run.worklogs[i].issueId = id
                  THEN 1 ELSE 0

C20_Witness ==
    /\ normalizing
    /\ \E i, j \in 1..Len(run.worklogs) :
          /\ i # j
          /\ run.worklogs[i].issueId # NoIssue
          /\ run.worklogs[i].issueId = run.worklogs[j].issueId
          /\ ~run.getIssue[run.worklogs[i].issueId]
    /\ Len(run.getIssueRequests) = 1


\* ------------------------------------------------ the visual state of a row

\* createEntry on row i when updateEntryVisualState(entry, "creating") throws
\* (document.querySelector rejects the selector built from the entry's id):
\* the call is made before the try block, so createEntry rejects there, with
\* no request sent. The same selector is used for "created", so a call that
\* passed "creating" does not throw later.
createEntryVisualThrows(i) ==
    /\ lastResult.present
    /\ i \in 1..Len(missingInRedmine)
    /\ rows[i] = ""
    /\ singles' = running(singles) \cup
          {[SingleCall(missingInRedmine[i], "done", NoTask, 0, NoBody) EXCEPT !.threw = TRUE]}
    /\ bulk' = bulkNow
    /\ UNCHANGED <<lastResult, rows, createAllDisabled, issues, timeEntries, behalf, propagated>>

\* The serialized creations, with rows whose visual update may throw.
NextVisual ==
    \/ Next
    \/ \E i \in 1..MaxWorklogs :
          ~Busy /\ createEntryVisualThrows(i) /\ UNCHANGED <<monthlyVars, run, apiVars, extVars>>

SpecVisual == Init /\ [][NextVisual]_vars

\* C21: a createEntry call whose visual-state update threw still goes on to its requests: it does not end without having asked Jira or Redmine for anything, and the entry of a created time record is removed from missingInRedmine.
C21_VisualFailureIsHarmless ==
    \A s \in singles :
        (s.pc = "done" /\ s.threw) =>
            /\ s.timeReqs + s.issueReqs > 0
            /\ (\E t \in timeEntries : t.tempoId = s.entry.tempoId) =>
                   s.entry.tempoId \notin missingIds


\* C22: no row stays in the visual state creating once the creation attempt on its entry has finished (no creation in flight): it is created or failed then.
C22_CreatingIsLeft ==
    ~Busy => \A i \in 1..Len(rows) : rows[i] # "creating"


\* ------------------------------------------------- Jira project mappings

\* Length of a URL, and number of stored mappings.
MaxUrl == 2
MaxMappings == 2

\* URLs: texts of the characters "F", "f" and "/".
RECURSIVE Texts(_)
Texts(n) ==
    IF n = 0 THEN {<< >>}
    ELSE Texts(n - 1) \cup {Append(t, c) : t \in {u \in Texts(n - 1) : Len(u) = n - 1},
                                           c \in {"F", "f", "/"}}

Urls == Texts(MaxUrl)

\* The stored jira_project_mappings: jiraUrl and redmineProjectId each.
MappingInputs ==
    UNION { [1..n -> [jiraUrl : Urls, redmineProjectId : {1, 2}]] : n \in 0..MaxMappings }

\* url.toLowerCase().replace(/\/$/, ""): one trailing slash is removed.
normalizeUrl(url) ==
    LET lower == toLowerCase(url)
    IN IF lower # << >> /\ lower[Len(lower)] = "/"
       THEN SubSeq(lower, 1, Len(lower) - 1)
       ELSE lower

\* The test of find keeping only the mappings the URL contains.
urlsMatch_oneWay(normalizedUrl, mappingUrl) == includes(normalizedUrl, mappingUrl)

\* normalizedUrl.includes(mappingUrl) || mappingUrl.includes(normalizedUrl).
urlsMatch(normalizedUrl, mappingUrl) ==
    includes(normalizedUrl, mappingUrl) \/ includes(mappingUrl, normalizedUrl)

\* mappings.find(...): the index of the first mapping that matches, 0 for
\* undefined.
findMapping(mappings, url) ==
    LET hits == {k \in 1..Len(mappings) :
                    urlsMatch(normalizeUrl(url), normalizeUrl(mappings[k].jiraUrl))}
    IN IF hits = {} THEN 0 ELSE CHOOSE k \in hits : \A m \in hits : k <= m

\* Storage.findRedmineProjectByJiraUrl.
findRedmineProjectByJiraUrl(mappings, jiraUrl) ==
    IF findMapping(mappings, jiraUrl) # 0
    THEN mappings[findMapping(mappings, jiraUrl)].redmineProjectId
    ELSE NoProject

\* SimpleTimeComparisonManager.getLinkedProject: the same search on the Jira
\* URL of the settings, then jiraSettings.defaultProject || null.
getLinkedProject(mappings, currentUrl, defaultProject) ==
    IF findMapping(mappings, currentUrl) # 0
    THEN mappings[findMapping(mappings, currentUrl)].redmineProjectId
    ELSE defaultProject

\* A project is resolved for a URL, by the Storage method and by the manager.
resolveProject ==
    /\ ~resolution.done
    /\ \E mappings \in MappingInputs, jiraUrl \in Urls, defaultProject \in {NoProject, 3} :
          resolution' = [done |-> TRUE, mappings |-> mappings, jiraUrl |-> jiraUrl,
                         defaultProject |-> defaultProject,
                         project |-> findRedmineProjectByJiraUrl(mappings, jiraUrl),
                         linkedProject |-> getLinkedProject(mappings, jiraUrl, defaultProject)]
    /\ UNCHANGED <<creationVars, monthlyVars, run, sent, paging, extVars>>

\* The next call.
resolutionCleared ==
    /\ resolution.done
    /\ resolution' = NoCall
    /\ UNCHANGED <<creationVars, monthlyVars, run, sent, paging, extVars>>

NextResolver ==
    \/ resolveProject
    \/ resolutionCleared

SpecResolver == Init /\ [][NextResolver]_vars

\* A URL in lower case without its trailing slash.
lowerNoSlash(url) ==
    LET lower == [k \in 1..Len(url) |-> IF url[k] = "F" THEN "f" ELSE url[k]]
    IN IF Len(lower) > 0 /\ lower[Len(lower)] = "/" THEN SubSeq(lower, 1, Len(lower) - 1)
       ELSE lower

\* The stored mappings whose URL contains, or is contained in, the URL of the
\* call, both normalized.
satisfying ==
    {k \in 1..Len(resolution.mappings) :
        \/ includes(lowerNoSlash(resolution.mappings[k].jiraUrl), lowerNoSlash(resolution.jiraUrl))
        \/ includes(lowerNoSlash(resolution.jiraUrl), lowerNoSlash(resolution.mappings[k].jiraUrl))}

\* C23: findRedmineProjectByJiraUrl returns the project of the first stored mapping whose normalized URL contains or is contained in the normalized URL of the call, and null when there is none; getLinkedProject returns the same project, or the default project of the settings when there is none.
C23_FirstMatchingMapping ==
    resolution.done =>
        /\ satisfying = {} =>
              /\ resolution.project = NoProject
              /\ resolution.linkedProject = resolution.defaultProject
        /\ \A k \in satisfying :
              (\A m \in satisfying : k <= m) =>
                  /\ resolution.project = resolution.mappings[k].redmineProjectId
                  /\ resolution.linkedProject = resolution.mappings[k].redmineProjectId

C23_Witness ==
    /\ resolution.done
    /\ \E k, m \in satisfying :
          /\ k < m
          /\ resolution.mappings[k].redmineProjectId # resolution.mappings[m].redmineProjectId
          /\ resolution.mappings[k].jiraUrl # resolution.jiraUrl
          /\ ~includes(resolution.jiraUrl, resolution.mappings[k].jiraUrl)
          /\ Len(resolution.mappings[k].jiraUrl) > Len(resolution.jiraUrl)


\* ------------------------------------------- createTimeEntry (api/redmine.js)

\* What parseInt returns for a text that does not start with a number.
NaN == -1

\* The task and project ids a caller passes, as texts: none, blank, a number,
\* zero, not a number.
TaskTexts == {<< >>, <<" ">>, <<"7">>, <<"x">>}
ProjectTexts == {<< >>, <<"5">>, <<"0">>, <<"x">>}

\* parseInt of such a text.
parseInt(text) ==
    LET t == trim(text)
    IN IF t = << >> THEN NaN
       ELSE IF t[1] = "7" THEN 7
       ELSE IF t[1] = "5" THEN 5
       ELSE IF t[1] = "0" THEN 0
       ELSE NaN

\* The project of the else branch: timeEntryData.projectId, else
\* settings.projectId, parsed; null (0) when neither is set.
projectIdOf(timeEntryData, settings) ==
    IF timeEntryData.projectId # << >> THEN parseInt(timeEntryData.projectId)
    ELSE IF settings.projectId # << >> THEN parseInt(settings.projectId)
    ELSE NoProject

\* The fields every payload has.
timeEntryFields(timeEntryData) ==
    [spent_on |-> timeEntryData.date, hours |-> timeEntryData.time,
     comments |-> timeEntryData.comment]

\* createTimeEntry putting the project in the payload next to the issue.
createTimeEntryRequest_both(timeEntryData, settings) ==
    IF timeEntryData.task # << >> /\ trim(timeEntryData.task) # << >>
    THEN [requested |-> TRUE,
          body |-> timeEntryFields(timeEntryData)
                       @@ ("issue_id" :> parseInt(timeEntryData.task))
                       @@ ("project_id" :> projectIdOf(timeEntryData, settings))]
    ELSE IF projectIdOf(timeEntryData, settings) \in {NoProject, NaN}
    THEN [requested |-> FALSE, body |-> timeEntryFields(timeEntryData)]
    ELSE [requested |-> TRUE,
          body |-> timeEntryFields(timeEntryData)
                       @@ ("project_id" :> projectIdOf(timeEntryData, settings))]

\* createTimeEntry up to its request: the payload carries issue_id for a
\* non-blank task, else project_id; without a project (!projectId: null, 0 or
\* NaN) it throws before the request.
createTimeEntryRequest(timeEntryData, settings) ==
    IF timeEntryData.task # << >> /\ trim(timeEntryData.task) # << >>
    THEN [requested |-> TRUE,
          body |-> timeEntryFields(timeEntryData)
                       @@ ("issue_id" :> parseInt(timeEntryData.task))]
    ELSE IF projectIdOf(timeEntryData, settings) \in {NoProject, NaN}
    THEN [requested |-> FALSE, body |-> timeEntryFields(timeEntryData)]
    ELSE [requested |-> TRUE,
          body |-> timeEntryFields(timeEntryData)
                       @@ ("project_id" :> projectIdOf(timeEntryData, settings))]

\* A call of createTimeEntry: the request, if one is made, succeeds or fails;
\* every error is caught and returned as success: false.
createTimeEntryCall ==
    /\ ~sent.done
    /\ \E task \in TaskTexts, projectId \in ProjectTexts, settingsProjectId \in ProjectTexts,
          comment \in {<< >>, <<"F">>}, ok \in BOOLEAN :
          LET timeEntryData == [date |-> "2024-01-05", time |-> 6, comment |-> comment,
                                task |-> task, projectId |-> projectId]
              settings == [projectId |-> settingsProjectId]
          IN sent' = [done |-> TRUE, timeEntryData |-> timeEntryData, settings |-> settings,
                      success |-> createTimeEntryRequest(timeEntryData, settings).requested /\ ok]
                         @@ createTimeEntryRequest(timeEntryData, settings)
    /\ UNCHANGED <<creationVars, monthlyVars, run, resolution, paging, extVars>>

\* The next call.
sentCleared ==
    /\ sent.done
    /\ sent' = NoCall
    /\ UNCHANGED <<creationVars, monthlyVars, run, resolution, paging, extVars>>

NextRequest ==
    \/ createTimeEntryCall
    \/ sentCleared

SpecRequest == Init /\ [][NextRequest]_vars

\* The call was given a task that is not blank.
taskGiven == \E k \in 1..Len(sent.timeEntryData.task) : sent.timeEntryData.task[k] # " "

\* C24: a createTimeEntry request carries exactly one of issue_id and project_id, issue_id if and only if a non-blank task was given; a call with neither a task nor a project (in the data or in the settings) sends no request and returns success: false.
C24_IssueOrProject ==
    sent.done =>
        /\ sent.requested =>
              /\ Cardinality({"issue_id", "project_id"} \cap DOMAIN sent.body) = 1
              /\ ("issue_id" \in DOMAIN sent.body) <=> taskGiven
        /\ (~taskGiven /\ sent.timeEntryData.projectId = << >> /\ sent.settings.projectId = << >>) =>
              ~sent.requested /\ ~sent.success

C24_Witness ==
    /\ sent.done
    /\ sent.requested
    /\ taskGiven
    /\ sent.timeEntryData.projectId = <<"5">>
    /\ sent.body["issue_id"] = 7

\* ---------------------------------------------------------------------------
\* Paginated fetches: fetchTimeEntries (api/redmine.js), getWorklogs (api/tempo.js)
\* ---------------------------------------------------------------------------

\* The most records a server holds for the requested range.
MaxServer == 9

\* CONFIG.REDMINE.PAGINATION_LIMIT (100), CONFIG.TEMPO.PAGINATION_LIMIT (1000)
\* and CONFIG.TEMPO.MAX_RECORDS (10000), scaled down to pages of two records
\* and a safety limit of two pages.
REDMINE_PAGINATION_LIMIT == 2
TEMPO_PAGINATION_LIMIT == 2
TEMPO_MAX_RECORDS == 4

\* The records a server holds for the range, in its order.
ServerRecords == {[i \in 1..n |-> i] : n \in 0..MaxServer}

\* The page a server returns for limit and offset.
page(server, limit, offset) ==
    SubSeq(server, offset + 1, Min(offset + limit, Len(server)))

\* What a fetch returns.
fetchFailed(call) ==
    [done |-> TRUE, success |-> FALSE, source |-> call.source, server |-> call.server,
     records |-> << >>, requests |-> call.requests + 1]
fetchReturned(call, all, requests) ==
    [done |-> TRUE, success |-> TRUE, source |-> call.source, server |-> call.server,
     records |-> all, requests |-> requests]

\* The loop of a fetch is between two requests.
looping(source) == "hasMore" \in DOMAIN paging /\ paging.source = source

\* fetchTimeEntries starts: getCurrentUser, which may throw, then the loop's
\* variables.
fetchTimeEntries_start ==
    /\ paging = NoCall
    /\ \E server \in ServerRecords, ok \in BOOLEAN :
          LET call == [done |-> FALSE, source |-> "redmine", server |-> server,
                       offset |-> 0, all |-> << >>, hasMore |-> TRUE, requests |-> 0]
          IN paging' = IF ok THEN call ELSE fetchFailed(call)
    /\ UNCHANGED <<creationVars, monthlyVars, run, resolution, sent, extVars>>

\* One pass of fetchTimeEntries' while loop, and the return when the loop ends.
fetchTimeEntries_page ==
    /\ looping("redmine")
    /\ \E ok \in BOOLEAN :
          LET limit == REDMINE_PAGINATION_LIMIT
              time_entries == page(paging.server, limit, paging.offset)
              hasMore == Len(time_entries) > 0 /\ Len(time_entries) = limit
              all == paging.all \o time_entries
          IN paging' =
                IF ~ok THEN fetchFailed(paging)
                ELSE IF hasMore
                THEN [paging EXCEPT !.all = all, !.offset = @ + limit,
                                    !.requests = @ + 1]
                ELSE fetchReturned(paging, all, paging.requests + 1)
    /\ UNCHANGED <<creationVars, monthlyVars, run, resolution, sent, extVars>>

\* getWorklogs starts; the server's pages carry metadata.count, the number of
\* records of the range, or no count.
getWorklogs_start ==
    /\ paging = NoCall
    /\ \E server \in ServerRecords, counted \in BOOLEAN :
          paging' = [done |-> FALSE, source |-> "tempo", server |-> server,
                     counted |-> counted, offset |-> 0, all |-> << >>, hasMore |-> TRUE,
                     totalCount |-> 0, requests |-> 0]
    /\ UNCHANGED <<creationVars, monthlyVars, run, resolution, sent, extVars>>

\* The loop goes on after a page: more records counted than fetched and a
\* full page.
getWorklogs_hasMore(offset, totalCount, worklogs, limit) ==
    Len(worklogs) > 0 /\ offset < totalCount /\ Len(worklogs) = limit

\* One pass of getWorklogs' while loop, with the safety limit's break, and the
\* return when the loop ends.
getWorklogs_page ==
    /\ looping("tempo")
    /\ \E ok \in BOOLEAN :
          LET limit == TEMPO_PAGINATION_LIMIT
              worklogs == page(paging.server, limit, paging.offset)
              count == IF paging.counted THEN Len(paging.server) ELSE 0
              offset == paging.offset + Len(worklogs)
              totalCount == IF Len(worklogs) > 0 /\ count # 0 THEN count
                            ELSE paging.totalCount
              all == paging.all \o worklogs
          IN paging' =
                IF ~ok THEN fetchFailed(paging)
                ELSE IF getWorklogs_hasMore(offset, totalCount, worklogs, limit)
                        /\ ~(offset > TEMPO_MAX_RECORDS)
                THEN [paging EXCEPT !.all = all, !.offset = offset,
                                    !.totalCount = totalCount, !.requests = @ + 1]
                ELSE fetchReturned(paging, all, paging.requests + 1)
    /\ UNCHANGED <<creationVars, monthlyVars, run, resolution, sent, extVars>>

\* The next fetch.
pagingCleared ==
    /\ paging.done
    /\ paging' = NoCall
    /\ UNCHANGED <<creationVars, monthlyVars, run, resolution, sent, extVars>>

NextPaging ==
    \/ fetchTimeEntries_start
    \/ fetchTimeEntries_page
    \/ getWorklogs_start
    \/ getWorklogs_page
    \/ pagingCleared

SpecPaging == Init /\ [][NextPaging]_vars

\* The page size of the fetch.
pageLimit ==
    IF paging.source = "redmine" THEN REDMINE_PAGINATION_LIMIT ELSE TEMPO_PAGINATION_LIMIT

\* C25: a paginated fetch ends after at most one request per page and one more, and a fetch that succeeds returns the records the server holds for the range, each once, in the server's order.
C25_FetchReturnsEveryRecord ==
    /\ "requests" \in DOMAIN paging =>
          paging.requests <= Len(paging.server) \div pageLimit + 1
    /\ (paging.done /\ paging.success) => paging.records = paging.server

\* ------------------------------------------------- overlapping createEntry

\* The createEntry calls in flight at a time when the rows' buttons are
\* clicked without waiting.
MaxConcurrent == 2

\* The rows' buttons alone: the button of a row that is not disabled starts
\* createEntry while other createEntry calls are still waiting for their
\* answers.
NextSingles ==
    \/ ~Busy /\ ~lastResult.present /\ performComparison /\ UNCHANGED <<monthlyVars, run, apiVars, extVars>>
    \/ ~Busy /\ lastResult.present /\ performComparisonFailed /\ UNCHANGED <<monthlyVars, run, apiVars, extVars>>
    \/ \E i \in 1..MaxWorklogs :
          Cardinality(running(singles)) < MaxConcurrent /\ createEntry(i) /\ UNCHANGED <<monthlyVars, run, apiVars, extVars>>
    \/ \E s \in singles, ok \in BOOLEAN : createEntryJiraResponse(s, ok) /\ UNCHANGED <<monthlyVars, run, apiVars, extVars>>
    \/ \E s \in singles, ok \in BOOLEAN : createEntryIssueResponse(s, ok) /\ UNCHANGED <<monthlyVars, run, apiVars, extVars>>
    \/ \E s \in singles, ok \in BOOLEAN : createEntryTimeResponse(s, ok) /\ UNCHANGED <<monthlyVars, run, apiVars, extVars>>

SpecSingles == Init /\ [][NextSingles]_vars

\* C26: of createEntry calls on different entries of one Jira code without a Redmine issue, the later started before the earlier has finished, at most one creates a Redmine issue for the code.
C26_OneIssueForOverlappingCalls ==
    \A s1 \in singles, s2 \in singles :
        ( /\ s1.entry.tempoId # s2.entry.tempoId
          /\ s1.entry.jiraTask # NoJira
          /\ s1.entry.jiraTask = s2.entry.jiraTask
          /\ s1.entry.redmineTask = NoTask
          /\ s2.entry.redmineTask = NoTask )
        => ~(s1.created # NoTask /\ s2.created # NoTask)

\* C27: after a createAllMissingEntries run, an entry of the run is left in missingInRedmine exactly when its own time record was not created, also when another entry of the run shares its date, hours and Jira code.
C27_RemovedEntryWasCreated ==
    bulk.pc = "done" =>
        \A i \in 1..Len(bulk.missingEntries) :
            (bulk.missingEntries[i].tempoId \in missingIds) <=> (bulk.results[i].st = "fail")

\* C28: in every state of the manager, creations overlapping or not, stats.missing is the length of missingInRedmine and is not negative.
C28_MissingCountIsListLength ==
    /\ stats.missing = Len(missingInRedmine)
    /\ stats.missing >= 0

\* C29: after the comparison and after every successful createEntry or createAllMissingEntries, stats.matched and stats.missing add up to stats.tempoTotal.
C29_MatchedPlusMissingIsTotal ==
    lastResult.present => stats.matched + stats.missing = stats.tempoTotal

\* C30: in a monthly comparison result no Redmine entry is the redmineEntry of the matchedEntries of two different Tempo entries.
C30_LedgerRecordPairedOnce ==
    (monthly.done /\ monthly.success) =>
        \A m, n \in 1..Len(monthly.comparison.matchedEntries) :
            monthly.comparison.matchedEntries[m].redmineEntry
                = monthly.comparison.matchedEntries[n].redmineEntry
            => monthly.comparison.matchedEntries[m].tempoEntry
                = monthly.comparison.matchedEntries[n].tempoEntry

\* C31: a Tempo entry with a Jira code is not paired, as a match or as a discrepancy, with a Redmine entry that has another Jira code.
C31_NoMatchAcrossCodes ==
    (monthly.done /\ monthly.success) =>
        \A p \in monthlySelected :
            (fetched.tempo[p[1]].jiraCode # NoJira /\ fetched.redmine[p[2]].jiraCode # NoJira)
            => fetched.tempo[p[1]].jiraCode = fetched.redmine[p[2]].jiraCode

\* How often the Tempo entry t is in a list of the comparison result.
timesIn(list, t) == Cardinality({n \in 1..Len(list) : list[n].tempoEntry = t})

\* C32: in a monthly comparison result every Tempo entry is in exactly one of missingInRedmine, matchedEntries and discrepancies, once, and the three lengths add up to the number of Tempo entries.
C32_EveryWorklogClassifiedOnce ==
    (monthly.done /\ monthly.success) =>
        /\ \A t \in 1..Len(fetched.tempo) :
              timesIn(monthly.comparison.missingInRedmine, t)
                  + timesIn(monthly.comparison.matchedEntries, t)
                  + timesIn(monthly.comparison.discrepancies, t) = 1
        /\ Len(monthly.comparison.missingInRedmine)
              + Len(monthly.comparison.matchedEntries)
              + Len(monthly.comparison.discrepancies) = Len(fetched.tempo)

\* Two Tempo entries against one Redmine entry: one an exact match, the other
\* a partial one.
C32_Witness ==
    /\ monthly.done
    /\ monthly.success
    /\ Len(fetched.tempo) = 2
    /\ Len(monthly.comparison.matchedEntries) = 1
    /\ Len(monthly.comparison.discrepancies) = 1

\* ------------------------------------- calculateDescriptionSimilarity alone

\* Length of a description.
MaxText == 3

\* Descriptions: texts of the characters "F", "f", "x" and " "; the empty
\* text stands for "", null and undefined alike (!text).
RECURSIVE Descriptions(_)
Descriptions(n) ==
    IF n = 0 THEN {<< >>}
    ELSE Descriptions(n - 1)
            \cup {Append(t, c) : t \in {u \in Descriptions(n - 1) : Len(u) = n - 1},
                                c \in {"F", "f", "x", " "}}

\* calculateDescriptionSimilarity(text1, text2) and
\* calculateDescriptionSimilarity(text2, text1) are called.
describe ==
    /\ ~described.done
    /\ \E text1 \in Descriptions(MaxText), text2 \in Descriptions(MaxText) :
          described' = [done |-> TRUE, text1 |-> text1, text2 |-> text2,
                        forward |-> calculateDescriptionSimilarity(text1, text2),
                        backward |-> calculateDescriptionSimilarity(text2, text1)]
    /\ UNCHANGED <<creationVars, monthlyVars, run, apiVars, tab, mappingStore, sync>>

\* The next pair of texts.
describedCleared ==
    /\ described.done
    /\ described' = NoCall
    /\ UNCHANGED <<creationVars, monthlyVars, run, apiVars, tab, mappingStore, sync>>

NextDescribed ==
    \/ describe
    \/ describedCleared

SpecDescribed == Init /\ [][NextDescribed]_vars

\* Two texts of one length that differ at most in the case of their letters.
equalUpToCase(a, b) ==
    /\ Len(a) = Len(b)
    /\ \A k \in 1..Len(a) : a[k] = b[k] \/ {a[k], b[k]} = {"F", "f"}

\* C33: the description similarity is the same for both orders of its arguments and lies between 0 and 1; it is 1 for two empty texts, 0 when exactly one text is empty, and 1 for two texts equal up to letter case.
C33_DescriptionSimilarity ==
    described.done =>
        /\ described.forward = described.backward
        /\ described.forward \in 0..Unit
        /\ (described.text1 = << >> /\ described.text2 = << >>) => described.forward = Unit
        /\ ((described.text1 = << >>) # (described.text2 = << >>)) => described.forward = 0
        /\ equalUpToCase(described.text1, described.text2) => described.forward = Unit

\* Two different texts equal up to letter case: "Fx " against "fx ".
C33_Witness ==
    /\ described.done
    /\ described.text1 = <<"F", "x", " ">>
    /\ described.text2 = <<"f", "x", " ">>
    /\ described.forward = Unit

\* --------------------------------- watchURL and JiraIntegration (content script)

\* JiraIntegration instances created, and setTimeout callbacks pending, in
\* one page.
MaxInstances == 2
MaxTimers == 2

\* null, for a matched value and for the instance held.
NoValue == ""
NoInstance == 0

\* window.location: an issue page (/browse/KEY), a board page
\* (jira/software, with or without selectedIssue=KEY), any other page.
Locations ==
    {[kind |-> "other", issue |-> NoValue]}
        \cup [kind : {"browse"}, issue : JiraTasks]
        \cup [kind : {"board"}, issue : {NoValue, "AB-1"}]

\* isBoardPage(): the pathname includes "jira/software".
isBoardPage(url) == url.kind = "board"

\* url.match(regex)[1] or null: /selectedIssue=([A-Z]+-\d+)/ on a board
\* page, /\/browse\/([A-Z]+-\d+)/ elsewhere.
urlMatch(url, board) ==
    IF board THEN (IF url.kind = "board" THEN url.issue ELSE NoValue)
    ELSE (IF url.kind = "browse" THEN url.issue ELSE NoValue)

\* JiraIntegration.cleanup on instance i: the badge in the page is removed
\* (removeExistingUI removes the element with the badge's id, whoever
\* inserted it) and the instance's data is cleared.
cleanup(t, i) ==
    [t EXCEPT !.badge = NoInstance,
              !.instances[i].cleaned = TRUE,
              !.instances[i].cleanups = @ + 1,
              !.instances[i].currentTaskId = NoValue]

\* onCreate(): new JiraIntegration(isBoardPage()); init calls start, which
\* runs up to its first await (the page's content elements).
onCreate(t) ==
    [t EXCEPT !.instances = Append(@,
        [pc |-> "waitContent", isBoardPage |-> isBoardPage(t.url),
         currentTaskId |-> NoValue, cleaned |-> FALSE, cleanups |-> 0,
         others |-> {k \in 1..Len(t.instances) : ~t.instances[k].cleaned},
         badgeAfterCleanup |-> FALSE]),
              !.currentInstance = Len(t.instances) + 1]

\* checkURL creating the new instance without the cleanup of the one held.
checked_withoutCleanup(t) ==
    LET newValue == urlMatch(t.url, isBoardPage(t.url))
        created == IF newValue # NoValue THEN onCreate(t) ELSE t
    IN IF newValue # t.currentValue
       THEN [created EXCEPT !.currentValue = newValue, !.checkedUrl = t.url]
       ELSE [t EXCEPT !.checkedUrl = t.url]

\* checkURL: when the matched value differs from the current one, the
\* instance held is cleaned up and dropped, then a new one is created if the
\* URL matches.
checked(t) ==
    LET newValue == urlMatch(t.url, isBoardPage(t.url))
        cleaned == IF t.currentInstance # NoInstance
                   THEN [cleanup(t, t.currentInstance) EXCEPT !.currentInstance = NoInstance]
                   ELSE t
        created == IF newValue # NoValue THEN onCreate(cleaned) ELSE cleaned
    IN IF newValue # t.currentValue
       THEN [created EXCEPT !.currentValue = newValue, !.checkedUrl = t.url]
       ELSE [t EXCEPT !.checkedUrl = t.url]

\* The content script is loaded into a page: watchURL registers the
\* navigate listener and calls checkURL. Redmine is configured in storage
\* or not.
watchURL ==
    /\ ~tab.loaded
    /\ \E url \in Locations, configured \in BOOLEAN :
          tab' = checked([loaded |-> TRUE, url |-> url, configured |-> configured,
                          timers |-> 0, currentValue |-> NoValue,
                          currentInstance |-> NoInstance, instances |-> << >>,
                          badge |-> NoInstance, checkedUrl |-> url])
    /\ UNCHANGED <<creationVars, monthlyVars, run, apiVars, described, mappingStore, sync>>

\* A navigation in the page: the listener schedules checkURL in 100 ms.
navigate ==
    /\ tab.loaded
    /\ tab.timers < MaxTimers
    /\ \E url \in Locations : tab' = [tab EXCEPT !.url = url, !.timers = @ + 1]
    /\ UNCHANGED <<creationVars, monthlyVars, run, apiVars, described, mappingStore, sync>>

\* A scheduled checkURL runs.
checkURL ==
    /\ tab.loaded
    /\ tab.timers > 0
    /\ Len(checked(tab).instances) <= MaxInstances
    /\ tab' = [checked(tab) EXCEPT !.timers = @ - 1]
    /\ UNCHANGED <<creationVars, monthlyVars, run, apiVars, described, mappingStore, sync>>

\* start of instance i: the content elements are there; extractTaskInfo
\* reads the task id from the URL as it is now. Without one start returns.
start_waitContent(i) ==
    /\ tab.loaded /\ i \in 1..Len(tab.instances)
    /\ tab.instances[i].pc = "waitContent"
    /\ LET currentTaskId == urlMatch(tab.url, tab.instances[i].isBoardPage)
       IN tab' = [tab EXCEPT !.instances[i].currentTaskId =
                                    IF currentTaskId # NoValue THEN currentTaskId ELSE @,
                             !.instances[i].pc =
                                    IF (IF currentTaskId # NoValue THEN currentTaskId
                                        ELSE tab.instances[i].currentTaskId) = NoValue
                                    THEN "done" ELSE "redmineSettings"]
    /\ UNCHANGED <<creationVars, monthlyVars, run, apiVars, described, mappingStore, sync>>

\* start of instance i: loadRedmineSettings has answered.
start_loadRedmineSettings(i) ==
    /\ tab.loaded /\ i \in 1..Len(tab.instances)
    /\ tab.instances[i].pc = "redmineSettings"
    /\ tab' = [tab EXCEPT !.instances[i].pc = "jiraSettings"]
    /\ UNCHANGED <<creationVars, monthlyVars, run, apiVars, described, mappingStore, sync>>

\* start of instance i: loadJiraSettings has answered; without Redmine
\* settings start returns, else the linked task is searched.
start_loadJiraSettings(i) ==
    /\ tab.loaded /\ i \in 1..Len(tab.instances)
    /\ tab.instances[i].pc = "jiraSettings"
    /\ tab' = [tab EXCEPT !.instances[i].pc = IF tab.configured THEN "search" ELSE "done"]
    /\ UNCHANGED <<creationVars, monthlyVars, run, apiVars, described, mappingStore, sync>>

\* start of instance i: searchLinkedTask has answered (found or not, errors
\* caught); createUI removes the badge in the page and inserts this
\* instance's badge at the insertion point, if there is one.
start_createUI(i) ==
    /\ tab.loaded /\ i \in 1..Len(tab.instances)
    /\ tab.instances[i].pc = "search"
    /\ \E point \in BOOLEAN :
          tab' = [tab EXCEPT !.badge = IF point THEN i ELSE NoInstance,
                             !.instances[i].pc = "done",
                             !.instances[i].badgeAfterCleanup =
                                    @ \/ (point /\ tab.instances[i].cleaned)]
    /\ UNCHANGED <<creationVars, monthlyVars, run, apiVars, described, mappingStore, sync>>

\* The page is closed or reloaded.
tabClosed ==
    /\ tab.loaded
    /\ tab' = NoTab
    /\ UNCHANGED <<creationVars, monthlyVars, run, apiVars, described, mappingStore, sync>>

NextTab ==
    \/ watchURL
    \/ navigate
    \/ checkURL
    \/ \E i \in 1..MaxInstances : start_waitContent(i)
    \/ \E i \in 1..MaxInstances : start_loadRedmineSettings(i)
    \/ \E i \in 1..MaxInstances : start_loadJiraSettings(i)
    \/ \E i \in 1..MaxInstances : start_createUI(i)
    \/ tabClosed

SpecTab == Init /\ [][NextTab]_vars

\* C34: after every URL check watchURL holds an instance if and only if the URL checked matches the pattern; every instance it no longer holds has had its cleanup called exactly once and the one it holds never, so at most one instance is live; and when an instance was created every earlier one had been cleaned up.
C34_OneLiveInstance ==
    tab.loaded =>
        /\ (tab.currentInstance # NoInstance)
              <=> (urlMatch(tab.checkedUrl, isBoardPage(tab.checkedUrl)) # NoValue)
        /\ \A i \in 1..Len(tab.instances) :
              /\ tab.instances[i].cleanups = (IF i = tab.currentInstance THEN 0 ELSE 1)
              /\ tab.instances[i].others = {}

\* The matched key has changed from one issue to another: the second
\* instance is held, the first has been cleaned up.
C34_Witness ==
    /\ tab.loaded
    /\ Len(tab.instances) = 2
    /\ tab.currentInstance = 2
    /\ tab.instances[1].cleaned
    /\ tab.instances[1].cleanups = 1
    /\ tab.currentValue = "AB-9"

\* C35: an instance on which cleanup has been called does not insert the badge into the page afterwards, wherever its start was waiting when cleanup ran.
C35_NoBadgeAfterCleanup ==
    tab.loaded => \A i \in 1..Len(tab.instances) : ~tab.instances[i].badgeAfterCleanup

\* ------------------------------------------------ JiraProjectMappingsManager

\* What the mapping form is filled with: a URL and a Redmine project, each
\* possibly left out.
FormInputs ==
    {[jiraUrl |-> << >>, redmineProjectId |-> 1],
     [jiraUrl |-> <<"/">>, redmineProjectId |-> 1],
     [jiraUrl |-> <<"F">>, redmineProjectId |-> 1],
     [jiraUrl |-> <<"f", "/">>, redmineProjectId |-> 1],
     [jiraUrl |-> <<"f">>, redmineProjectId |-> NoProject]}

\* sanitizeUrl: one trailing slash is removed and "https://" is put in front
\* of a text without a protocol; new URL throws on a URL without a host.
sanitizeUrl(url) ==
    LET cut == IF url # << >> /\ url[Len(url)] = "/"
               THEN SubSeq(url, 1, Len(url) - 1) ELSE url
    IN IF cut # << >> /\ cut[1] = "https://" THEN cut ELSE <<"https://">> \o cut

validUrl(url) == Len(sanitizeUrl(url)) > 1

\* The ids of a list of mappings.
idsOf(list) == {list[k].id : k \in 1..Len(list)}

\* saveMapping's check for duplicates against this.mappings, the mapping
\* being edited excepted.
existingMapping(mappings, jiraUrl, currentEditingId) ==
    \E k \in 1..Len(mappings) :
        /\ toLowerCase(mappings[k].jiraUrl) = toLowerCase(jiraUrl)
        /\ mappings[k].id # currentEditingId

\* closeModal and clearForm.
closed(m) ==
    [m EXCEPT !.currentEditingId = NoId, !.formUrl = << >>, !.formProject = NoProject]

\* Text is typed and a project chosen in the form.
typeForm ==
    /\ \E input \in FormInputs :
          mappingStore' = [mappingStore EXCEPT !.formUrl = input.jiraUrl,
                                               !.formProject = input.redmineProjectId]
    /\ UNCHANGED <<creationVars, monthlyVars, run, apiVars, described, tab, sync>>

\* openAddModal.
openAddModal ==
    /\ mappingStore' = closed(mappingStore)
    /\ UNCHANGED <<creationVars, monthlyVars, run, apiVars, described, tab, sync>>

\* openEditModal(id) from the row of a listed mapping: the form is filled
\* with the mapping.
openEditModal ==
    /\ \E k \in 1..Len(mappingStore.mappings) :
          mappingStore' = [mappingStore EXCEPT
                              !.currentEditingId = mappingStore.mappings[k].id,
                              !.formUrl = mappingStore.mappings[k].jiraUrl,
                              !.formProject = mappingStore.mappings[k].redmineProjectId]
    /\ UNCHANGED <<creationVars, monthlyVars, run, apiVars, described, tab, sync>>

\* saveMapping, from the save button's click or the form's submit, up to its
\* storage call: validation, sanitizeUrl and the duplicate check throw into
\* the catch; otherwise Storage.updateJiraProjectMapping or
\* Storage.addJiraProjectMapping starts reading the stored mappings.
saveMapping(c) ==
    /\ mappingStore.calls[c] = IdleCall
    /\ LET m == mappingStore
           rejected == \/ m.formUrl = << >>
                       \/ m.formProject = NoProject
                       \/ ~validUrl(m.formUrl)
                       \/ existingMapping(m.mappings, sanitizeUrl(m.formUrl), m.currentEditingId)
       IN mappingStore' =
            IF rejected THEN m
            ELSE [m EXCEPT !.calls[c] = [pc |-> "get",
                                         kind |-> IF m.currentEditingId # NoId
                                                  THEN "update" ELSE "add",
                                         id |-> m.currentEditingId,
                                         jiraUrl |-> sanitizeUrl(m.formUrl),
                                         redmineProjectId |-> m.formProject,
                                         local |-> << >>]]
    /\ UNCHANGED <<creationVars, monthlyVars, run, apiVars, described, tab, sync>>

\* deleteMapping(id) from the row of a listed mapping, confirmed, up to
\* Storage.removeJiraProjectMapping reading the stored mappings.
deleteMapping(c) ==
    /\ mappingStore.calls[c] = IdleCall
    /\ \E k \in 1..Len(mappingStore.mappings) :
          mappingStore' = [mappingStore EXCEPT
                              !.calls[c] = [pc |-> "get", kind |-> "remove",
                                            id |-> mappingStore.mappings[k].id,
                                            jiraUrl |-> << >>,
                                            redmineProjectId |-> NoProject,
                                            local |-> << >>]]
    /\ UNCHANGED <<creationVars, monthlyVars, run, apiVars, described, tab, sync>>

\* The list a storage function writes back, from the list it has read:
\* addJiraProjectMapping pushes, updateJiraProjectMapping replaces the
\* fields of the mapping with the id, removeJiraProjectMapping filters.
changed(call, mappings, newId) ==
    IF call.kind = "add"
    THEN Append(mappings, [id |-> newId, jiraUrl |-> call.jiraUrl,
                           redmineProjectId |-> call.redmineProjectId])
    ELSE IF call.kind = "update"
    THEN [k \in 1..Len(mappings) |->
            IF mappings[k].id = call.id
            THEN [mappings[k] EXCEPT !.jiraUrl = call.jiraUrl,
                                     !.redmineProjectId = call.redmineProjectId]
            ELSE mappings[k]]
    ELSE selectSeq(mappings, {k \in 1..Len(mappings) : mappings[k].id # call.id})

\* getJiraProjectMappings answers call c: the list to write is made and
\* setJiraProjectMappings called; updateJiraProjectMapping without the id in
\* the list returns false, which saveMapping throws on.
storageGet(c) ==
    /\ mappingStore.calls[c].pc = "get"
    /\ LET m == mappingStore
           call == m.calls[c]
       IN IF call.kind = "update" /\ call.id \notin idsOf(m.stored)
          THEN mappingStore' = [m EXCEPT !.calls[c] = IdleCall]
          ELSE /\ call.kind = "add" => m.adds < MaxAdds
               /\ mappingStore' =
                    [m EXCEPT !.calls[c].pc = "set",
                              !.calls[c].local = changed(call, m.stored, m.adds + 1),
                              !.adds = IF call.kind = "add" THEN @ + 1 ELSE @]
    /\ UNCHANGED <<creationVars, monthlyVars, run, apiVars, described, tab, sync>>

\* chrome.storage.local.set answers call c: the list is stored, or the write
\* fails and the call ends in the catch. After a write loadMappings starts.
storageSet(c) ==
    /\ mappingStore.calls[c].pc = "set"
    /\ \E ok \in BOOLEAN :
          mappingStore' =
            IF ok
            THEN [mappingStore EXCEPT !.stored = mappingStore.calls[c].local,
                                      !.calls[c].pc = "load"]
            ELSE [mappingStore EXCEPT !.calls[c] = IdleCall]
    /\ UNCHANGED <<creationVars, monthlyVars, run, apiVars, described, tab, sync>>

\* loadMappings of call c: this.mappings becomes the stored list; saveMapping
\* goes on to closeModal once the table is rendered.
loadMappings(c) ==
    /\ mappingStore.calls[c].pc = "load"
    /\ mappingStore' = [mappingStore EXCEPT
                            !.mappings = mappingStore.stored,
                            !.calls[c] = IF mappingStore.calls[c].kind = "remove"
                                         THEN IdleCall
                                         ELSE [mappingStore.calls[c] EXCEPT !.pc = "close"]]
    /\ UNCHANGED <<creationVars, monthlyVars, run, apiVars, described, tab, sync>>

\* The end of saveMapping's call c: closeModal.
closeModal(c) ==
    /\ mappingStore.calls[c].pc = "close"
    /\ mappingStore' = [closed(mappingStore) EXCEPT !.calls[c] = IdleCall]
    /\ UNCHANGED <<creationVars, monthlyVars, run, apiVars, described, tab, sync>>

NextMappings ==
    \/ typeForm
    \/ openAddModal
    \/ openEditModal
    \/ \E c \in 1..MaxCalls : saveMapping(c)
    \/ \E c \in 1..MaxCalls : deleteMapping(c)
    \/ \E c \in 1..MaxCalls : storageGet(c)
    \/ \E c \in 1..MaxCalls : storageSet(c)
    \/ \E c \in 1..MaxCalls : loadMappings(c)
    \/ \E c \in 1..MaxCalls : closeModal(c)

SpecMappings == Init /\ [][NextMappings]_vars

\* C36: no two stored mappings have the same Jira URL, letter case aside.
C36_NoTwoMappingsForOneUrl ==
    \A i, j \in 1..Len(mappingStore.stored) :
        i # j => toLowerCase(mappingStore.stored[i].jiraUrl)
                    # toLowerCase(mappingStore.stored[j].jiraUrl)

\* ------------------------------------------- syncWeekData (api/redmine.js)

\* The most entries a day of weekData has.
MaxDayEntries == 2

\* The days of the week synchronised, both inside startDate..endDate.
WeekDates == <<"2024-01-01", "2024-01-02">>

\* The project Redmine reports for a time entry logged on the issue.
IssueProject == 5

\* The entries of weekData: issue and project each set or not, the task
\* number, hours in hundredths of an hour.
WeekEntries ==
    [redmineIssueId : {NoIssue, 7}, redmineProjectId : {NoProject, 5},
     hours : {150}, taskNumber : {<<"AB-1">>, <<"AB-9">>}, comment : {<<"F">>}]

RECURSIVE DayEntries(_)
DayEntries(n) ==
    IF n = 0 THEN {<< >>}
    ELSE DayEntries(n - 1)
            \cup {Append(d, e) : d \in {x \in DayEntries(n - 1) : Len(x) = n - 1},
                                 e \in WeekEntries}

\* weekData.days: the first day with up to MaxDayEntries entries, the second
\* with at most one.
WeekDays ==
    {<<[date |-> WeekDates[1], entries |-> d1], [date |-> WeekDates[2], entries |-> d2]>> :
        d1 \in DayEntries(MaxDayEntries), d2 \in DayEntries(1)}

\* What Redmine holds for the week before the first run: nothing, or one
\* entry of the first day.
ExistingBefore ==
    {<< >>}
       \cup {<<[spent_on |-> WeekDates[1], issue |-> 7, project |-> IssueProject,
                hours |-> h, comments |-> c]>> :
               h \in {150, 151}, c \in {<<"F">>, <<"AB-1", ": ", "F">>}}

\* The entries of all days, each with its day's date, in the order of the
\* two loops.
weekEntriesOf(days) ==
    LET dated(d) == [k \in 1..Len(days[d].entries) |->
                        [date |-> days[d].date, entry |-> days[d].entries[k]]]
    IN dated(1) \o dated(2)

\* fetchTimeEntries' result for a server holding the records: the pages of
\* PAGINATION_LIMIT records, one after the other, until one is short.
RECURSIVE fetchTimeEntries(_, _)
fetchTimeEntries(server, offset) ==
    LET time_entries == page(server, REDMINE_PAGINATION_LIMIT, offset)
    IN IF Len(time_entries) > 0 /\ Len(time_entries) = REDMINE_PAGINATION_LIMIT
       THEN time_entries \o fetchTimeEntries(server, offset + REDMINE_PAGINATION_LIMIT)
       ELSE time_entries

\* The find callback: date, issue or project, hours and comment match.
existingMatch(redmineEntry, date, entry) ==
    LET dateMatch == redmineEntry.spent_on = date
        taskMatch == \/ entry.redmineIssueId # NoIssue
                        /\ redmineEntry.issue = entry.redmineIssueId
                     \/ entry.redmineProjectId # NoProject
                        /\ redmineEntry.project = entry.redmineProjectId
        hoursMatch == Abs(redmineEntry.hours - entry.hours) < 1
        commentMatch == \/ includes(redmineEntry.comments, entry.taskNumber)
                        \/ redmineEntry.comments = entry.comment
    IN dateMatch /\ taskMatch /\ hoursMatch /\ commentMatch

\* An id as toString gives it.
idText(id) == IF id = 7 THEN <<"7">> ELSE IF id = 5 THEN <<"5">> ELSE << >>

\* timeEntryData of an entry: task for an issue, else projectId for a project.
syncTimeEntryData(date, entry) ==
    [date |-> date, time |-> entry.hours,
     comment |-> entry.taskNumber \o <<": ">> \o entry.comment,
     task |-> idText(entry.redmineIssueId),
     projectId |-> IF entry.redmineIssueId # NoIssue THEN << >>
                   ELSE idText(entry.redmineProjectId)]

\* The time entry Redmine stores and returns for a payload.
storedEntry(body) ==
    [spent_on |-> body.spent_on, hours |-> body.hours, comments |-> body.comments,
     issue |-> IF "issue_id" \in DOMAIN body THEN body["issue_id"] ELSE NoIssue,
     project |-> IF "issue_id" \in DOMAIN body THEN IssueProject ELSE body["project_id"]]

NoResults == [processed |-> 0, created |-> 0, skipped |-> 0, errors |-> 0]

\* Where a run of syncWeekData is.
syncAt(pc) == "pc" \in DOMAIN sync /\ sync.pc = pc

\* syncWeekData is called: the results are zero and fetchTimeEntries starts.
syncWeekData_start ==
    /\ sync = NoCall
    /\ \E days \in WeekDays, projectId \in {<< >>, <<"5">>}, server \in ExistingBefore :
          sync' = [done |-> FALSE, pc |-> "fetch", runs |-> 1, days |-> days,
                   settings |-> [projectId |-> projectId], server |-> server,
                   existingEntries |-> << >>, next |-> 1, results |-> NoResults,
                   success |-> FALSE, first |-> NoResults]
    /\ UNCHANGED <<creationVars, monthlyVars, run, apiVars, described, tab, mappingStore>>

\* fetchTimeEntries returns: the existing entries, or a failure, which
\* syncWeekData throws on and returns as success: false.
syncWeekData_fetched ==
    /\ syncAt("fetch")
    /\ \E ok \in BOOLEAN :
          sync' = IF ok
                  THEN [sync EXCEPT !.pc = "loop",
                                    !.existingEntries = fetchTimeEntries(sync.server, 0)]
                  ELSE [sync EXCEPT !.pc = "returned", !.done = TRUE, !.success = FALSE]
    /\ UNCHANGED <<creationVars, monthlyVars, run, apiVars, described, tab, mappingStore>>

\* One pass of the inner loop: the entry is skipped when find returns an
\* existing entry; otherwise createTimeEntry is called and its result counted.
syncEntry(call, item, ok) ==
    LET existingEntry == \E k \in 1..Len(call.existingEntries) :
                            existingMatch(call.existingEntries[k], item.date, item.entry)
        request == createTimeEntryRequest(syncTimeEntryData(item.date, item.entry),
                                          call.settings)
        createResult == request.requested /\ ok
    IN IF existingEntry
       THEN [call EXCEPT !.next = @ + 1, !.results.processed = @ + 1,
                         !.results.skipped = @ + 1]
       ELSE IF createResult
       THEN [call EXCEPT !.next = @ + 1, !.results.processed = @ + 1,
                         !.results.created = @ + 1,
                         !.server = Append(@, storedEntry(request.body))]
       ELSE [call EXCEPT !.next = @ + 1, !.results.processed = @ + 1,
                         !.results.errors = @ + 1]

syncWeekData_entry ==
    /\ syncAt("loop")
    /\ sync.next <= Len(weekEntriesOf(sync.days))
    /\ \E ok \in BOOLEAN :
          sync' = syncEntry(sync, weekEntriesOf(sync.days)[sync.next], ok)
    /\ UNCHANGED <<creationVars, monthlyVars, run, apiVars, described, tab, mappingStore>>

\* The loops are over: success: true with the results.
syncWeekData_return ==
    /\ syncAt("loop")
    /\ sync.next > Len(weekEntriesOf(sync.days))
    /\ sync' = [sync EXCEPT !.pc = "returned", !.done = TRUE, !.success = TRUE]
    /\ UNCHANGED <<creationVars, monthlyVars, run, apiVars, described, tab, mappingStore>>

\* syncWeekData is called again with the same weekData and settings, against
\* what Redmine holds now.
syncWeekData_again ==
    /\ sync.done
    /\ sync.runs = 1
    /\ sync.success
    /\ sync' = [sync EXCEPT !.done = FALSE, !.pc = "fetch", !.runs = 2,
                            !.existingEntries = << >>, !.next = 1,
                            !.results = NoResults, !.success = FALSE,
                            !.first = sync.results]
    /\ UNCHANGED <<creationVars, monthlyVars, run, apiVars, described, tab, mappingStore>>

\* Another week.
syncCleared ==
    /\ sync.done
    /\ sync' = NoCall
    /\ UNCHANGED <<creationVars, monthlyVars, run, apiVars, described, tab, mappingStore>>

NextSync ==
    \/ syncWeekData_start
    \/ syncWeekData_fetched
    \/ syncWeekData_entry
    \/ syncWeekData_return
    \/ syncWeekData_again
    \/ syncCleared

SpecSync == Init /\ [][NextSync]_vars

\* C37: when the first run of syncWeekData created every entry of weekData, a second run with the same weekData that fetched the existing entries creates no time entry and counts every entry as skipped.
C37_SecondRunCreatesNothing ==
    (/\ sync.done
     /\ sync.runs = 2
     /\ sync.success
     /\ sync.first.created = Len(weekEntriesOf(sync.days)))
        => /\ sync.results.created = 0
           /\ sync.results.skipped = Len(weekEntriesOf(sync.days))

====
